---- MODULE Spec2Model ----
(***************************************************************************)
(* The Datastore online store of feast's GCP provider                      *)
(* (sdk/python/feast/infra/gcp.py): batched, transactional, conflict-      *)
(* retried writes with the freshness rule, point reads, paginated table    *)
(* deletion and the materialization pipeline built on top of them.         *)
(***************************************************************************)
EXTENDS Integers, Sequences, FiniteSets, TLC

(***************************************************************************)
(* Bounds of the model.                                                    *)
(***************************************************************************)
\* Event timestamps are the instants 1..MaxTs.
MaxTs == 2
\* Created timestamps are absent or one of the instants 1..MaxCts.
MaxCts == 2
\* The longest data of a call that is split into several minibatches.
MaxRows == 101
\* Materializations cover the ranges [t, t + 1) with t + 1 <= MaxEnd.
MaxEnd == 3
\* The longest list of entity keys online_read is given.
MaxReadKeys == 2
\* The most rows a table holds when it is deleted: two pages and a part.
MaxStored == 2500
\* The longest list of tables update_infra or teardown_infra is given.
MaxListed == 2
\* Instants of the offline source's rows, and the latest end of a range.
MaxIncrEnd == 4
\* Values of a join key in the keys of two join keys.
MaxKeyValue == 2

(***************************************************************************)
(* Values.                                                                 *)
(***************************************************************************)
\* Python's None: an absent created timestamp, a missing Datastore entity.
None == [none |-> TRUE]

\* A datetime: an instant and whether the object carries a time zone.  A
\* naive datetime denotes its instant in UTC.
Datetime(t, tz) == [t |-> t, tz |-> tz]

make_tzaware(t) == IF t.tz = "naive" THEN [t EXCEPT !.tz = "utc"] ELSE t

\* Two datetimes that denote the same instant.
SameInstant(a, b) == a.t = b.t

\* EntityKeyProto: parallel lists of join key names and of their values.
EntityKey(names, vals) == [join_keys |-> names, entity_values |-> vals]

EntityKeys == { EntityKey(<<"driver_id">>, <<1>>), EntityKey(<<"driver_id">>, <<2>>) }

\* A key no write of the model ever uses.
UnwrittenKey == EntityKey(<<"driver_id">>, <<3>>)

\* Datetimes a row can carry as its event timestamp: every instant as an aware
\* datetime, and as a naive one.
EventTimestamps == { Datetime(t, tz) : t \in 1..MaxTs, tz \in {"naive", "utc"} }

\* Created timestamps: absent, or an instant (naive for the odd instants, so
\* that both kinds occur).
CreatedTimestamps ==
    {None} \cup { Datetime(t, IF t % 2 = 1 THEN "naive" ELSE "utc") : t \in 1..MaxCts }

\* A row of online_write_batch's data:
\* (entity_key, features, timestamp, created_ts).
Row(k, f, ts, cts) == [entity_key |-> k, features |-> f, timestamp |-> ts, created_ts |-> cts]

\* The rows that carry the feature mapping f.
RowsWith(f) == { Row(k, f, ts, cts) : k \in EntityKeys, ts \in EventTimestamps,
                                      cts \in CreatedTimestamps }

(***************************************************************************)
(* Serialization.                                                          *)
(***************************************************************************)
\* EntityKeyProto.SerializeToString(): the fields in the order they are held.
SerializeToString(m) == <<"proto", m>>

\* ValueProto.ParseFromString: the message SerializeToString was given.
ParseFromString(b) == b[2]

\* The join key names of the model, in sorted order.
SortedNames == <<"customer_id", "driver_id">>

\* serialize_entity_key: the (join key, value) pairs sorted by join key name,
\* the names first, then the values.
serialize_entity_key(k) ==
    LET held == { k.join_keys[i] : i \in DOMAIN k.join_keys }
        sorted_keys == SelectSeq(SortedNames, LAMBDA name : name \in held)
        value(name) == k.entity_values[CHOOSE i \in DOMAIN k.join_keys : k.join_keys[i] = name]
    IN  <<"key", sorted_keys, [i \in DOMAIN sorted_keys |-> value(sorted_keys[i])]>>

\* An identifier computed from the message as the caller built it.
compute_datastore_entity_id_Unsorted(k) == <<"mmh3", SerializeToString(k)>>

\* mmh3.hash_bytes(...).hex(): a 128-bit digest, taken as free of collisions.
compute_datastore_entity_id(k) == <<"mmh3", serialize_entity_key(k)>>

(***************************************************************************)
(* Program constants.                                                      *)
(***************************************************************************)
\* _write_minibatch: attempts of one minibatch transaction.
num_retries_on_conflict == 3
\* _to_minibatches: rows per minibatch.
batch_size == 50
\* online_write_batch: threads of the pool.
processes == 10
\* _delete_all_values: entities fetched per query.
fetch_limit == 1000

\* Feature views (tables) of the one project of the model.
Tables == {"fv1", "fv2"}

\* Concurrent online_write_batch calls.
Calls == {"c1", "c2"}

(***************************************************************************)
(* State.                                                                  *)
(***************************************************************************)
VARIABLES
    store,      \* Datastore: table -> (document id of a Row entity -> entity)
    callpc,     \* per call: "idle", "running", "returned" or "raised"
    calltable,  \* per call: the table it writes
    calldata,   \* per call: its data argument
    batches,    \* per call: list(_to_minibatches(data))
    task,       \* per call: one record per minibatch, the state of _write_minibatch
    callprogress, \* per call: whether a progress callback was given (not None)
    reported,   \* per call: the sum of the counts its progress callback was given
    committed,  \* the minibatches <<call, index>> in the order their transactions committed
    matpc,      \* materialize_single_feature_view: the stage it has reached
    mat,        \* its arguments and local variables
    intervals,  \* per feature view: feature_view.materialization_intervals
    registry,   \* per feature view: the intervals of the feature view the registry holds
    offline,    \* the rows of the feature view's data source in the offline store
    readpc,     \* online_read: "idle", "reading" or "returned"
    rd,         \* its arguments, the position of the loop, its result list and,
                \* per key looked up, how many minibatches were committed then
    delpc,      \* _delete_all_values: "idle", "query", "deleting" or "returned"
    del,        \* its table, the entities of the last query, the position of the
                \* loop over them, and counts of its queries and deletes
    marker,     \* Datastore: table -> the Table entity of the table, or None
    infrapc,    \* update_infra / teardown_infra: "idle", "running", "rows" or "returned"
    infra       \* their arguments, how far their loops have come, and the store
                \* and the Table entities they found

\* The variables of online_write_batch and of its minibatches.
writeVars == <<callpc, calltable, calldata, batches, task, callprogress, reported>>
\* The variables of materialize_single_feature_view.
matVars == <<matpc, mat, intervals, registry, offline>>

\* The variables of online_read.
readVars == <<readpc, rd>>

\* The variables of _delete_all_values.
delVars == <<delpc, del>>

\* The variables of update_infra and teardown_infra.
infraVars == <<marker, infrapc, infra>>

vars == <<store, writeVars, committed, matVars, readVars, delVars, infraVars>>

(***************************************************************************)
(* The Datastore client.                                                   *)
(***************************************************************************)
\* client.get(key) of the Row entity `doc` of `table` in the store `s`.
Get(s, table, doc) == IF doc \in DOMAIN s[table] THEN s[table][doc] ELSE None

\* entity.update(d): the properties of d replace or extend those of e.
Update(e, d) == [p \in DOMAIN e \cup DOMAIN d |-> IF p \in DOMAIN d THEN d[p] ELSE e[p]]

\* datastore.Entity(key=key): an entity with no property.
EmptyEntity == [p \in {} |-> None]

\* A commit that applies the first mutation only.
ApplyPuts_FirstOnly(rows, puts) ==
    IF puts = <<>> THEN rows
    ELSE [d \in DOMAIN rows \cup {puts[1].doc} |->
             IF d = puts[1].doc THEN puts[1].entity ELSE rows[d]]

\* The mutations of a transaction, applied in order by its commit: for every
\* document the last put of it stands.
ApplyPuts(rows, puts) ==
    LET PutsTo(d) == { j \in DOMAIN puts : puts[j].doc = d }
        LastPut(d) == CHOOSE j \in PutsTo(d) : \A n \in PutsTo(d) : n <= j
    IN  [d \in DOMAIN rows \cup { puts[j].doc : j \in DOMAIN puts } |->
            IF PutsTo(d) # {} THEN puts[LastPut(d)].entity ELSE rows[d]]

(***************************************************************************)
(* _to_minibatches                                                         *)
(***************************************************************************)
\* A slice one row too long.
islice_OffByOne(rest, n) == SubSeq(rest, 1, IF n + 1 < Len(rest) THEN n + 1 ELSE Len(rest))

\* itertools.islice(iterable, n) on an iterator with `rest` left to give.
islice(rest, n) == SubSeq(rest, 1, IF n < Len(rest) THEN n ELSE Len(rest))

\* list(_to_minibatches(data, size)): slices are taken until one is empty.
RECURSIVE _to_minibatches(_, _)
_to_minibatches(data, size) ==
    LET batch == islice(data, size)
    IN  IF Len(batch) > 0
        THEN <<batch>> \o _to_minibatches(SubSeq(data, Len(batch) + 1, Len(data)), size)
        ELSE <<>>

(***************************************************************************)
(* _write_minibatch                                                        *)
(***************************************************************************)
\* A freshness rule without its first branch.
StoredIsFresher_Never(entity, row) == FALSE

\* The first branch of the freshness rule: the stored entity is fresher.
StoredIsFresher(entity, row) == entity.event_ts.t > make_tzaware(row.timestamp).t

\* A freshness rule without its second branch.
StoredIsLaterComputed_Never(entity, row) == FALSE

\* The second branch: the same event time, computed later.
StoredIsLaterComputed(entity, row) ==
    /\ SameInstant(entity.event_ts, make_tzaware(row.timestamp))
    /\ row.created_ts # None
    /\ entity.created_ts # None
    /\ entity.created_ts.t > make_tzaware(row.created_ts).t

\* A rule that also skips a row as fresh as the stored entity.
Skips_OnTie(entity, row) ==
    /\ entity # None
    /\ entity.event_ts.t >= make_tzaware(row.timestamp).t

\* Whether the loop `continue`s on a row, given what client.get returned.
Skips(entity, row) ==
    /\ entity # None
    /\ StoredIsFresher(entity, row) \/ StoredIsLaterComputed(entity, row)

\* The properties entity.update sets from a row.
RowProperties(row) ==
    [key        |-> SerializeToString(row.entity_key),
     values     |-> [k \in DOMAIN row.features |-> SerializeToString(row.features[k])],
     event_ts   |-> make_tzaware(row.timestamp),
     created_ts |-> IF row.created_ts # None THEN make_tzaware(row.created_ts) ELSE None]

\* An upsert that keeps what a stored entity holds.
Upsert_KeepsStored(entity, row) ==
    IF entity # None THEN entity ELSE Update(EmptyEntity, RowProperties(row))

\* The entity a row that is not skipped puts.
Upsert(entity, row) ==
    Update(IF entity # None THEN entity ELSE EmptyEntity, RowProperties(row))

\* The mutations the loop over `data` buffers, `reads[j]` being what client.get
\* returned for row j: one put per row that is not skipped, in the order of
\* the rows.
PutsOf(data, reads) ==
    LET kept == { j \in DOMAIN data : ~Skips(reads[j], data[j]) }
        \* how many kept rows precede row j
        before == [j \in kept |-> Cardinality({ m \in kept : m < j })]
        \* the n-th row that is kept
        Nth(n) == CHOOSE j \in kept : before[j] = n - 1
    IN  [n \in 1..Cardinality(kept) |->
            LET j == Nth(n)
            IN  [doc |-> compute_datastore_entity_id(data[j].entity_key),
                 entity |-> Upsert(reads[j], data[j])]]

\* How often the loop over `data` reaches `if progress: progress(1)`: once
\* per row that is put, and never without a callback.
ProgressCalls(data, reads, progress) ==
    IF progress THEN Len(PutsOf(data, reads)) ELSE 0

\* _write_minibatch before its first attempt.
NewTask ==
    [pc |-> "queued", retry_number |-> 0, row_count |-> 0,
     reads |-> <<>>, puts |-> <<>>, attempts |-> 0, conflicts |-> 0,
     errors |-> 0, progress_calls |-> 0]

\* Minibatches of call c a pool thread is working on.
InProgress(c) == { i \in DOMAIN task[c] : task[c][i].pc \in {"retry", "txn"} }

\* ceil(n / d)
CeilDiv(n, d) == (n + d - 1) \div d

\* pool.map hands the minibatches to the threads in chunks of
\* ceil(minibatches / (4 * processes)) consecutive minibatches.
Chunksize(c) == CeilDiv(Len(batches[c]), 4 * processes)

\* The chunk of minibatch i, and whether i is the first of its chunk.
Chunk(c, i) == (i - 1) \div Chunksize(c)
FirstOfChunk(c, i) == (i - 1) % Chunksize(c) = 0

\* _write_minibatch has returned or raised, or is never called because an
\* earlier minibatch of the chunk raised.
Finished(t) == t.pc \in {"done", "raised", "abandoned"}

\* The chunks a pool thread is working on: begun and not yet through.
BusyChunks(c) ==
    { Chunk(c, i) : i \in { j \in DOMAIN task[c] :
                               /\ FirstOfChunk(c, j)
                               /\ task[c][j].pc # "queued"
                               /\ \E n \in DOMAIN task[c] :
                                      Chunk(c, n) = Chunk(c, j) /\ ~Finished(task[c][n]) } }

\* A pool that starts a thread for every chunk.
Taken_Unbounded(c, i) ==
    IF FirstOfChunk(c, i)
    THEN \A j \in 1..(i - 1) : FirstOfChunk(c, j) => task[c][j].pc # "queued"
    ELSE task[c][i - 1].pc = "done"

\* A thread takes minibatch i: as the first of the next chunk when a thread
\* is free, or after the minibatch before it in the chunk has been written.
Taken(c, i) ==
    IF FirstOfChunk(c, i)
    THEN /\ \A j \in 1..(i - 1) : FirstOfChunk(c, j) => task[c][j].pc # "queued"
         /\ Cardinality(BusyChunks(c)) < processes
    ELSE task[c][i - 1].pc = "done"

\* What the transaction's lookups of the minibatch's rows return in store s.
Lookups(s, table, data) ==
    [j \in DOMAIN data |-> Get(s, table, compute_datastore_entity_id(data[j].entity_key))]

(***************************************************************************)
(* online_write_batch                                                      *)
(***************************************************************************)
\* The call starts: the data is split and handed to the pool.
StartWrite(c, table, data, progress) ==
    /\ callpc[c] = "idle"
    /\ callpc' = [callpc EXCEPT ![c] = "running"]
    /\ calltable' = [calltable EXCEPT ![c] = table]
    /\ calldata' = [calldata EXCEPT ![c] = data]
    /\ callprogress' = [callprogress EXCEPT ![c] = progress]
    /\ reported' = [reported EXCEPT ![c] = 0]
    /\ batches' = [batches EXCEPT ![c] = _to_minibatches(data, batch_size)]
    /\ task' = [task EXCEPT ![c] = [i \in DOMAIN batches'[c] |-> NewTask]]

\* online_write_batch called by a client of the provider.
online_write_batch(c, table, data, progress) ==
    /\ StartWrite(c, table, data, progress)
    /\ UNCHANGED <<store, committed, matVars, readVars, delVars, infraVars>>

\* One attempt of _write_minibatch, up to the end of the `with` body: the
\* transaction begins, every row is looked up in the transaction's snapshot
\* and put or skipped; the puts are buffered until the commit.
WriteMinibatchAttempt(c, i) ==
    /\ callpc[c] = "running"
    /\ i \in DOMAIN task[c]
    /\ \/ task[c][i].pc = "retry"
       \/ /\ task[c][i].pc = "queued"
          /\ Taken(c, i)
    /\ LET reads == Lookups(store, calltable[c], batches[c][i])
           puts == PutsOf(batches[c][i], reads)
           calls == ProgressCalls(batches[c][i], reads, callprogress[c])
       IN  /\ task' = [task EXCEPT ![c][i] =
                           [@ EXCEPT !.pc = "txn", !.row_count = Len(puts),
                                     !.reads = reads, !.puts = puts,
                                     !.attempts = @ + 1,
                                     !.progress_calls = calls]]
           /\ reported' = [reported EXCEPT ![c] = @ + calls]
    /\ UNCHANGED <<store, callpc, calltable, calldata, batches, callprogress, committed,
                   matVars, readVars, delVars, infraVars>>

\* A transaction that ignores what other transactions committed meanwhile.
SnapshotUnchanged_Unchecked(c, i) == TRUE

\* `with client.transaction()`: the commit is accepted only if no entity the
\* transaction looked up has changed since.
SnapshotUnchanged(c, i) ==
    task[c][i].reads = Lookups(store, calltable[c], batches[c][i])

\* The transaction commits: its puts are applied together, in order.
TransactionCommit(c, i) ==
    /\ callpc[c] = "running"
    /\ i \in DOMAIN task[c]
    /\ task[c][i].pc = "txn"
    /\ SnapshotUnchanged(c, i)
    /\ store' = [store EXCEPT ![calltable[c]] = ApplyPuts(@, task[c][i].puts)]
    /\ task' = [task EXCEPT ![c][i].pc = "done"]
    /\ committed' = Append(committed, <<c, i>>)
    /\ UNCHANGED <<callpc, calltable, calldata, batches, callprogress, reported,
                   matVars, readVars, delVars, infraVars>>

\* A retry test that is off by one.
LastAttempt_OffByOne(retry_number) == retry_number = num_retries_on_conflict

\* `if retry_number == num_retries_on_conflict - 1: raise`
LastAttempt(retry_number) == retry_number = num_retries_on_conflict - 1

\* The minibatches a thread gives up when minibatch i raises: mapstar runs
\* list(map(func, chunk)), so those after i in its chunk are never called.
Abandoned(c, i) == { n \in DOMAIN task[c] : n > i /\ Chunk(c, n) = Chunk(c, i) }

\* The backend reports a write conflict (it must when an entity the
\* transaction looked up has changed, and may for contention it alone sees):
\* nothing is written, and the attempt is repeated unless it was the last.
TransactionConflict(c, i) ==
    /\ callpc[c] = "running"
    /\ i \in DOMAIN task[c]
    /\ task[c][i].pc = "txn"
    /\ LET t == task[c][i]
           last == LastAttempt(t.retry_number)
       IN  task' = [task EXCEPT ![c] =
                        [n \in DOMAIN task[c] |->
                            IF n = i
                            THEN [t EXCEPT !.pc = IF last THEN "raised" ELSE "retry",
                                           !.retry_number = IF last THEN @ ELSE @ + 1,
                                           !.conflicts = @ + 1]
                            ELSE IF last /\ n \in Abandoned(c, i)
                                 THEN [task[c][n] EXCEPT !.pc = "abandoned"]
                                 ELSE task[c][n]]]
    /\ UNCHANGED <<store, callpc, calltable, calldata, batches, callprogress, reported,
                   committed, matVars, readVars, delVars, infraVars>>

\* A handler that catches every exception.
Caught_Any(exception) == TRUE

\* `except Conflict:` is the only handler of the try statement.
Caught(exception) == exception = "Conflict"

\* The backend reports an error that is not a Conflict while the transaction
\* is open: the `with` block rolls the transaction back and, no handler
\* catching the error, _write_minibatch raises it.
BackendError(c, i) ==
    /\ callpc[c] = "running"
    /\ i \in DOMAIN task[c]
    /\ task[c][i].pc = "txn"
    /\ LET t == task[c][i]
           again == Caught("ServiceUnavailable") /\ ~LastAttempt(t.retry_number)
       IN  task' = [task EXCEPT ![c] =
                        [n \in DOMAIN task[c] |->
                            IF n = i
                            THEN [t EXCEPT !.pc = IF again THEN "retry" ELSE "raised",
                                           !.retry_number = IF again THEN @ + 1 ELSE @,
                                           !.errors = @ + 1]
                            ELSE IF ~again /\ n \in Abandoned(c, i)
                                 THEN [task[c][n] EXCEPT !.pc = "abandoned"]
                                 ELSE task[c][n]]]
    /\ UNCHANGED <<store, callpc, calltable, calldata, batches, callprogress, reported,
                   committed, matVars, readVars, delVars, infraVars>>

\* pool.map returns: every minibatch was written.
OnlineWriteBatchReturn(c) ==
    /\ callpc[c] = "running"
    /\ \A i \in DOMAIN task[c] : task[c][i].pc = "done"
    /\ callpc' = [callpc EXCEPT ![c] = "returned"]
    /\ UNCHANGED <<store, calltable, calldata, batches, task, callprogress, reported,
                   committed, matVars, readVars, delVars, infraVars>>

\* pool.map raises what a minibatch raised (the Conflict of one that ran out
\* of attempts, or another error), once every chunk is through.
OnlineWriteBatchRaise(c) ==
    /\ callpc[c] = "running"
    /\ \A i \in DOMAIN task[c] : Finished(task[c][i])
    /\ \E i \in DOMAIN task[c] : task[c][i].pc = "raised"
    /\ callpc' = [callpc EXCEPT ![c] = "raised"]
    /\ UNCHANGED <<store, calltable, calldata, batches, task, callprogress, reported,
                   committed, matVars, readVars, delVars, infraVars>>

(***************************************************************************)
(* online_read                                                             *)
(***************************************************************************)
\* online_read has not been called.
NoRead == [table |-> "none", entity_keys |-> <<>>, next |-> 1, result |-> <<>>, seen |-> <<>>]

\* A read that returns the stored bytes of the features as they are.
Decoded_Raw(values) == values

\* The loop over value["values"]: every feature parsed back into a ValueProto.
Decoded(values) == [feature_name \in DOMAIN values |-> ParseFromString(values[feature_name])]

\* What online_read appends for an entity key, `value` being what client.get
\* returned.
ReadResult(value) ==
    IF value # None THEN <<value.event_ts, Decoded(value.values)>> ELSE <<None, None>>

\* A loop that leaves the missing entities out of the result.
AppendResult_SkipsMissing(result, value) ==
    IF value # None THEN Append(result, ReadResult(value)) ELSE result

\* result.append(...) of either branch.
AppendResult(result, value) == Append(result, ReadResult(value))

\* online_read(project, table, entity_keys) is called.
online_read(table, entity_keys) ==
    /\ readpc = "idle"
    /\ readpc' = "reading"
    /\ rd' = [table |-> table, entity_keys |-> entity_keys, next |-> 1,
              result |-> <<>>, seen |-> <<>>]
    /\ UNCHANGED <<store, writeVars, committed, matVars, delVars, infraVars>>

\* One turn of the loop: the next entity key is looked up and its result
\* appended.
OnlineReadGet ==
    /\ readpc = "reading"
    /\ rd.next <= Len(rd.entity_keys)
    /\ LET entity_key == rd.entity_keys[rd.next]
           value == Get(store, rd.table, compute_datastore_entity_id(entity_key))
       IN  rd' = [rd EXCEPT !.result = AppendResult(@, value),
                            !.seen = Append(@, Len(committed)),
                            !.next = @ + 1]
    /\ UNCHANGED <<store, writeVars, committed, matVars, readpc, delVars, infraVars>>

\* The loop is over: the result list is returned.
OnlineReadReturn ==
    /\ readpc = "reading"
    /\ rd.next > Len(rd.entity_keys)
    /\ readpc' = "returned"
    /\ UNCHANGED <<store, writeVars, committed, matVars, rd, delVars, infraVars>>

(***************************************************************************)
(* _delete_all_values                                                      *)
(***************************************************************************)
\* _delete_all_values has not been called.
NoDelete == [table |-> "none", entities |-> <<>>, next |-> 1,
             initial |-> 0, queries |-> 0, deleted |-> 0]

\* The place of a Row entity in the key order of a query: that of the value
\* of its join key.
Rank(doc) == doc[2][3][1]

\* The Row entity of a place.
DocOfRank(r) == compute_datastore_entity_id(EntityKey(<<"driver_id">>, <<r>>))

\* list(query.fetch(limit=limit)): the keys of the first `limit` Row entities
\* under the table, in key order.
Fetch(rows, limit) ==
    LET ranks == { Rank(d) : d \in DOMAIN rows }
        k == IF Cardinality(ranks) < limit THEN Cardinality(ranks) ELSE limit
        lo == CHOOSE r \in ranks : \A q \in ranks : r <= q
    IN  IF ranks = {} THEN <<>>
        ELSE IF \A r \in lo..(lo + k - 1) : r \in ranks
             THEN [n \in 1..k |-> DocOfRank(lo + n - 1)]
             ELSE [n \in 1..k |->
                      DocOfRank(CHOOSE r \in ranks :
                                    Cardinality({ q \in ranks : q < r }) = n - 1)]

\* A function that queries once and returns after that page.
AfterPage_SinglePass == "returned"

\* `while True`: after the entities of a query are deleted, the query is
\* made again.
AfterPage == "query"

\* _delete_all_values(client, key) is entered for a table.
StartDelete(table) ==
    /\ delpc = "idle"
    /\ delpc' = "query"
    /\ del' = [NoDelete EXCEPT !.table = table,
                               !.initial = Cardinality(DOMAIN store[table])]

\* _delete_all_values(client, key) called on its own.
delete_all_values(table) ==
    /\ StartDelete(table)
    /\ UNCHANGED <<store, writeVars, committed, matVars, readVars, infraVars>>

\* The query: at most fetch_limit entities are fetched; with none, the
\* function returns.
DeleteQuery ==
    /\ delpc = "query"
    /\ LET entities == Fetch(store[del.table], fetch_limit)
       IN  /\ del' = [del EXCEPT !.entities = entities, !.next = 1, !.queries = @ + 1]
           /\ delpc' = IF entities = <<>> THEN "returned" ELSE "deleting"
    /\ UNCHANGED <<store, writeVars, committed, matVars, readVars, infraVars>>

\* The loop over the fetched entities: client.delete(entity.key) of each of
\* them, after which the query is made again.
DeletePage ==
    /\ delpc = "deleting"
    /\ LET fetched == { del.entities[n] : n \in DOMAIN del.entities }
       IN  store' = [store EXCEPT ![del.table] = [d \in DOMAIN @ \ fetched |-> @[d]]]
    /\ del' = [del EXCEPT !.next = Len(del.entities) + 1,
                          !.deleted = @ + Len(del.entities)]
    /\ delpc' = AfterPage
    /\ UNCHANGED <<writeVars, committed, matVars, readVars, infraVars>>

(***************************************************************************)
(* update_infra and teardown_infra                                         *)
(***************************************************************************)
\* Neither update_infra nor teardown_infra has been called.
NoInfra == [op |-> "none", tables_to_delete |-> <<>>, tables_to_keep |-> <<>>,
            partial |-> FALSE, kept |-> 0, deleted |-> 0,
            store_before |-> <<>>, marker_before |-> <<>>]

\* An update_infra that writes no Table entity.
PutMarker_Missing(m, table, now) == m

\* entity = datastore.Entity(key=key); entity.update({"created_ts":
\* datetime.utcnow()}); client.put(entity): the Table entity of the table is
\* written anew, with the naive datetime of the moment.
PutMarker(m, table, now) ==
    [m EXCEPT ![table] = Update(EmptyEntity, [created_ts |-> Datetime(now, "naive")])]

\* A removal that leaves the Table entity where it is.
RemoveMarker_Keeps(m, table) == m

\* client.delete(key) of the Table entity of the table.
RemoveMarker(m, table) == [m EXCEPT ![table] = None]

\* A caller that does not wait for _delete_all_values.
RowsDeleted_Unawaited == delpc # "idle"

\* _delete_all_values(...) has returned, so the next statement runs.
RowsDeleted == delpc = "returned"

\* update_infra(project, tables_to_delete, tables_to_keep, partial) is called.
update_infra(tables_to_delete, tables_to_keep, partial) ==
    /\ infrapc = "idle"
    /\ infrapc' = "running"
    /\ infra' = [op |-> "update_infra", tables_to_delete |-> tables_to_delete,
                 tables_to_keep |-> tables_to_keep, partial |-> partial,
                 kept |-> 0, deleted |-> 0,
                 store_before |-> store, marker_before |-> marker]
    /\ UNCHANGED <<store, writeVars, committed, matVars, readVars, delVars, marker>>

\* One turn of `for table in tables_to_keep`.
UpdateInfraKeep(now) ==
    /\ infrapc = "running"
    /\ infra.op = "update_infra"
    /\ infra.kept < Len(infra.tables_to_keep)
    /\ marker' = PutMarker(marker, infra.tables_to_keep[infra.kept + 1], now)
    /\ infra' = [infra EXCEPT !.kept = @ + 1]
    /\ UNCHANGED <<store, writeVars, committed, matVars, readVars, delVars, infrapc>>

\* `for table in tables_to_delete`: _delete_all_values is called for the
\* next table.
UpdateInfraDeleteRows ==
    /\ infrapc = "running"
    /\ infra.op = "update_infra"
    /\ infra.kept = Len(infra.tables_to_keep)
    /\ infra.deleted < Len(infra.tables_to_delete)
    /\ StartDelete(infra.tables_to_delete[infra.deleted + 1])
    /\ infrapc' = "rows"
    /\ UNCHANGED <<store, writeVars, committed, matVars, readVars, marker, infra>>

\* The rest of the turn: the Table entity of the table is deleted.
UpdateInfraDeleteMarker ==
    /\ infrapc = "rows"
    /\ infra.op = "update_infra"
    /\ RowsDeleted
    /\ marker' = RemoveMarker(marker, infra.tables_to_delete[infra.deleted + 1])
    /\ infra' = [infra EXCEPT !.deleted = @ + 1]
    /\ infrapc' = "running"
    /\ delpc' = "idle"
    /\ UNCHANGED <<store, writeVars, committed, matVars, readVars, del>>

\* Both loops are over: update_infra returns.
UpdateInfraReturn ==
    /\ infrapc = "running"
    /\ infra.op = "update_infra"
    /\ infra.kept = Len(infra.tables_to_keep)
    /\ infra.deleted = Len(infra.tables_to_delete)
    /\ infrapc' = "returned"
    /\ UNCHANGED <<store, writeVars, committed, matVars, readVars, delVars, marker, infra>>

\* teardown_infra(project, tables) is called.
teardown_infra(tables) ==
    /\ infrapc = "idle"
    /\ infrapc' = "running"
    /\ infra' = [op |-> "teardown_infra", tables_to_delete |-> tables,
                 tables_to_keep |-> <<>>, partial |-> FALSE,
                 kept |-> 0, deleted |-> 0,
                 store_before |-> store, marker_before |-> marker]
    /\ UNCHANGED <<store, writeVars, committed, matVars, readVars, delVars, marker>>

\* `for table in tables`: _delete_all_values is called for the next table.
TeardownDeleteRows ==
    /\ infrapc = "running"
    /\ infra.op = "teardown_infra"
    /\ infra.deleted < Len(infra.tables_to_delete)
    /\ StartDelete(infra.tables_to_delete[infra.deleted + 1])
    /\ infrapc' = "rows"
    /\ UNCHANGED <<store, writeVars, committed, matVars, readVars, marker, infra>>

\* The rest of the turn: the Table entity of the table is deleted.
TeardownDeleteMarker ==
    /\ infrapc = "rows"
    /\ infra.op = "teardown_infra"
    /\ RowsDeleted
    /\ marker' = RemoveMarker(marker, infra.tables_to_delete[infra.deleted + 1])
    /\ infra' = [infra EXCEPT !.deleted = @ + 1]
    /\ infrapc' = "running"
    /\ delpc' = "idle"
    /\ UNCHANGED <<store, writeVars, committed, matVars, readVars, del>>

\* The loop is over: teardown_infra returns.
TeardownReturn ==
    /\ infrapc = "running"
    /\ infra.op = "teardown_infra"
    /\ infra.deleted = Len(infra.tables_to_delete)
    /\ infrapc' = "returned"
    /\ UNCHANGED <<store, writeVars, committed, matVars, readVars, delVars, marker, infra>>

(***************************************************************************)
(* Specification: concurrent online_write_batch calls on one table.        *)
(***************************************************************************)
\* No materialization has been started.
NoMaterialization == [feature_view |-> "none", call |-> "none"]

\* The features each call writes: the code never looks into them, so one
\* mapping per call shows every outcome.
FeaturesOf(c) == IF c = "c1" THEN [f \in {"value"} |-> "0.1"]
                 ELSE [f \in {"value", "extra"} |-> "0.3"]

\* The data of a call: one row.
CallData(c) == { <<r>> : r \in RowsWith(FeaturesOf(c)) }

Init ==
    /\ store = [t \in Tables |-> <<>>]
    /\ callpc = [c \in Calls |-> "idle"]
    /\ calltable = [c \in Calls |-> "fv1"]
    /\ calldata = [c \in Calls |-> <<>>]
    /\ batches = [c \in Calls |-> <<>>]
    /\ task = [c \in Calls |-> <<>>]
    /\ callprogress = [c \in Calls |-> FALSE]
    /\ reported = [c \in Calls |-> 0]
    /\ committed = <<>>
    /\ matpc = "idle"
    /\ mat = NoMaterialization
    /\ intervals = [t \in Tables |-> <<>>]
    /\ registry = [t \in Tables |-> <<>>]
    /\ offline = {}
    /\ readpc = "idle"
    /\ rd = NoRead
    /\ delpc = "idle"
    /\ del = NoDelete
    /\ marker = [t \in Tables |-> None]
    /\ infrapc = "idle"
    /\ infra = NoInfra

Next ==
    \/ \E c \in Calls : \E d \in CallData(c) : online_write_batch(c, "fv1", d, FALSE)
    \/ \E c \in Calls : \E i \in DOMAIN task[c] : WriteMinibatchAttempt(c, i)
    \/ \E c \in Calls : \E i \in DOMAIN task[c] : TransactionCommit(c, i)
    \/ \E c \in Calls : \E i \in DOMAIN task[c] : TransactionConflict(c, i)
    \/ \E c \in Calls : OnlineWriteBatchReturn(c)
    \/ \E c \in Calls : OnlineWriteBatchRaise(c)

Spec == Init /\ [][Next]_vars

(***************************************************************************)
(* Specification: one online_write_batch call with data of any length up   *)
(* to MaxRows, split into minibatches that the pool writes concurrently.   *)
(***************************************************************************)
\* n rows with n different entity keys.
LongData(n) ==
    [i \in 1..n |-> Row(EntityKey(<<"driver_id">>, <<i>>), FeaturesOf("c1"),
                         Datetime(1, "utc"), None)]

BatchData == { LongData(n) : n \in 0..MaxRows }

NextBatch ==
    \/ \E d \in BatchData : online_write_batch("c1", "fv1", d, FALSE)
    \/ \E i \in DOMAIN task["c1"] : WriteMinibatchAttempt("c1", i)
    \/ \E i \in DOMAIN task["c1"] : TransactionCommit("c1", i)
    \/ \E i \in DOMAIN task["c1"] : TransactionConflict("c1", i)
    \/ OnlineWriteBatchReturn("c1")
    \/ OnlineWriteBatchRaise("c1")

SpecBatch == Init /\ [][NextBatch]_vars

(***************************************************************************)
(* Specification: the same call, with backend errors that are not write    *)
(* conflicts.                                                               *)
(***************************************************************************)
NextErr ==
    \/ NextBatch
    \/ \E i \in DOMAIN task["c1"] : BackendError("c1", i)

SpecErr == Init /\ [][NextErr]_vars

(***************************************************************************)
(* Specification: one online_write_batch call whose minibatches outnumber  *)
(* 4 * processes, so that pool.map puts more than one into a chunk.  The   *)
(* threads run one after the other, and the backend reports contention on  *)
(* the first minibatch only.                                               *)
(***************************************************************************)
\* The rows of the call: one more than 4 * processes full minibatches.
MaxChunkedRows == 2001

\* The minibatches that can meet a conflict.
Contended == {1}

\* No thread but the one of minibatch i is at work.
OnlyThread(c, i) == BusyChunks(c) \subseteq {Chunk(c, i)}

NextChunks ==
    \/ online_write_batch("c1", "fv1", LongData(MaxChunkedRows), FALSE)
    \/ \E i \in DOMAIN task["c1"] : OnlyThread("c1", i) /\ WriteMinibatchAttempt("c1", i)
    \/ \E i \in DOMAIN task["c1"] : TransactionCommit("c1", i)
    \/ \E i \in Contended : TransactionConflict("c1", i)
    \/ OnlineWriteBatchReturn("c1")
    \/ OnlineWriteBatchRaise("c1")

SpecChunks == Init /\ [][NextChunks]_vars

(***************************************************************************)
(* Specification: one online_write_batch call with one minibatch more than *)
(* the pool has threads.  The threads begin their minibatches at any pace;  *)
(* the backend reports contention and errors on the first minibatch only,  *)
(* and commits the others in the order they were begun.                    *)
(***************************************************************************)
\* The rows of the call: `processes` full minibatches and a row.
MaxPoolRows == 501

\* Minibatch i is the earliest begun of those the backend does not contend.
NextToCommit(c, i) == \A j \in InProgress(c) \ Contended : i <= j

NextPool ==
    \/ online_write_batch("c1", "fv1", LongData(MaxPoolRows), FALSE)
    \/ \E i \in DOMAIN task["c1"] : WriteMinibatchAttempt("c1", i)
    \/ \E i \in DOMAIN task["c1"] :
           (i \in Contended \/ NextToCommit("c1", i)) /\ TransactionCommit("c1", i)
    \/ \E i \in Contended : TransactionConflict("c1", i)
    \/ \E i \in Contended : BackendError("c1", i)
    \/ OnlineWriteBatchReturn("c1")
    \/ OnlineWriteBatchRaise("c1")

SpecPool == Init /\ [][NextPool]_vars

(***************************************************************************)
(* materialize_single_feature_view                                         *)
(***************************************************************************)
\* An interval list that keeps only the latest interval.
RecordInterval_Overwrites(list, start_date, end_date) == << <<start_date, end_date>> >>

\* feature_view.materialization_intervals.append((start_date, end_date))
RecordInterval(list, start_date, end_date) == Append(list, <<start_date, end_date>>)

\* A caller that goes on whether or not the write raised.
WriteReturned_OrRaised(c) == callpc[c] \in {"returned", "raised"}

\* self.online_write_batch(...) has returned, so the next statement runs.
WriteReturned(c) == callpc[c] = "returned"

\* feature_view.input.field_mapping as the test declares it: source column ->
\* name the feature view uses.
FieldMapping == [ts_1 |-> "ts", id |-> "driver_id"]

\* The join keys of the feature view's entities.
JoinKeys == <<"driver_id">>

\* The name a field mapping gives a source column, and the source column it
\* gives a name to.
Renamed(mapping, column) ==
    IF mapping # None /\ column \in DOMAIN mapping THEN mapping[column] ELSE column
SourceColumn(mapping, name) ==
    IF mapping # None /\ \E x \in DOMAIN mapping : mapping[x] = name
    THEN CHOOSE x \in DOMAIN mapping : mapping[x] = name
    ELSE name

\* The record the offline store returns for a row of the source: its values
\* under the source's column names.
PulledRecord(row, mapping) ==
    LET names == {"driver_id", "ts", "created_ts"} \cup DOMAIN row.features
        value(name) == IF name = "driver_id" THEN row.entity_key.entity_values[1]
                       ELSE IF name = "ts" THEN row.timestamp
                       ELSE IF name = "created_ts" THEN row.created_ts
                       ELSE row.features[name]
    IN  [x \in { SourceColumn(mapping, name) : name \in names } |->
            value(Renamed(mapping, x))]

\* The table pull_latest_from_table_or_query returns for the rows it selects.
PulledTable(rows, mapping) == [n \in DOMAIN rows |-> PulledRecord(rows[n], mapping)]

\* _run_field_mapping(table, field_mapping): the mapped columns are renamed.
_run_field_mapping(table, mapping) ==
    [n \in DOMAIN table |->
        [name \in { Renamed(mapping, x) : x \in DOMAIN table[n] } |->
            table[n][SourceColumn(mapping, name)]]]

\* _convert_arrow_to_proto(table, feature_view, join_keys): one row per
\* record, the entity key from the join key columns, the features from the
\* columns that are neither join keys nor timestamps.
_convert_arrow_to_proto(table, join_keys) ==
    [n \in DOMAIN table |->
        Row(EntityKey(join_keys, [k \in DOMAIN join_keys |-> table[n][join_keys[k]]]),
            [f \in DOMAIN table[n] \ ({"ts", "created_ts"}
                                        \cup { join_keys[k] : k \in DOMAIN join_keys }) |->
                table[n][f]],
            table[n]["ts"], table[n]["created_ts"])]

\* Resolve: materialize_single_feature_view is called; the entities and the
\* column names of the feature view are resolved.
MaterializeResolve(fv, start_date, end_date, field_mapping) ==
    /\ matpc \in {"idle", "done", "failed"}
    /\ matpc' = "resolved"
    /\ mat' = [feature_view |-> fv, field_mapping |-> field_mapping,
               join_keys |-> JoinKeys,
               start_arg |-> start_date, end_arg |-> end_date,
               start_date |-> start_date, end_date |-> end_date,
               pull_range |-> <<>>,
               table |-> <<>>, rows_to_write |-> <<>>, call |-> "none",
               intervals_before |-> intervals[fv], registry_before |-> registry[fv],
               stages |-> <<"resolve">>]
    /\ UNCHANGED <<store, writeVars, committed, intervals, registry, offline, readVars, delVars, infraVars>>

\* Pull: start_date and end_date are made timezone-aware and the offline
\* store returns the latest row of each entity in the range, `pulled`.
MaterializePull(pulled) ==
    /\ matpc = "resolved"
    /\ matpc' = "pulled"
    /\ mat' = [mat EXCEPT !.start_date = make_tzaware(@),
                          !.end_date = make_tzaware(@),
                          !.pull_range = <<make_tzaware(mat.start_date),
                                           make_tzaware(mat.end_date)>>,
                          !.table = PulledTable(pulled, mat.field_mapping),
                          !.stages = Append(@, "pull")]
    /\ UNCHANGED <<store, writeVars, committed, intervals, registry, offline, readVars, delVars, infraVars>>

\* Transform: the field mapping, when the source declares one, is applied to
\* the table.
MaterializeTransform ==
    /\ matpc = "pulled"
    /\ matpc' = "transformed"
    /\ mat' = [mat EXCEPT !.table = IF mat.field_mapping # None
                                    THEN _run_field_mapping(@, mat.field_mapping)
                                    ELSE @,
                          !.stages = Append(@, "transform")]
    /\ UNCHANGED <<store, writeVars, committed, intervals, registry, offline, readVars, delVars, infraVars>>

\* Convert: the table becomes the rows to write.
MaterializeConvert ==
    /\ matpc = "transformed"
    /\ matpc' = "converted"
    /\ mat' = [mat EXCEPT !.rows_to_write = _convert_arrow_to_proto(mat.table, mat.join_keys),
                          !.stages = Append(@, "convert")]
    /\ UNCHANGED <<store, writeVars, committed, intervals, registry, offline, readVars, delVars, infraVars>>

\* A caller that writes as soon as the table is pulled.
Converted_Early == matpc \in {"pulled", "transformed", "converted"}

\* rows_to_write is computed, so the next statement runs.
Converted == matpc = "converted"

\* Commit: self.online_write_batch(project, feature_view, rows_to_write, None)
MaterializeCommit(c) ==
    /\ Converted
    /\ StartWrite(c, mat.feature_view, mat.rows_to_write, FALSE)
    /\ matpc' = "commit"
    /\ mat' = [mat EXCEPT !.call = c, !.stages = Append(@, "commit")]
    /\ UNCHANGED <<store, committed, intervals, registry, offline, readVars, delVars, infraVars>>

\* online_write_batch raised: the exception leaves
\* materialize_single_feature_view.
MaterializeAbort ==
    /\ matpc = "commit"
    /\ callpc[mat.call] = "raised"
    /\ ~WriteReturned(mat.call)
    /\ matpc' = "failed"
    /\ UNCHANGED <<store, writeVars, committed, mat, intervals, registry, offline, readVars, delVars, infraVars>>

\* Record: the interval is appended to the feature view.
MaterializeRecord ==
    /\ matpc = "commit"
    /\ WriteReturned(mat.call)
    /\ intervals' = [intervals EXCEPT ![mat.feature_view] =
                         RecordInterval(@, mat.start_date, mat.end_date)]
    /\ matpc' = "recorded"
    /\ mat' = [mat EXCEPT !.stages = Append(@, "record")]
    /\ UNCHANGED <<store, writeVars, committed, registry, offline, readVars, delVars, infraVars>>

\* registry.apply_feature_view(feature_view, project)
MaterializeApply ==
    /\ matpc = "recorded"
    /\ registry' = [registry EXCEPT ![mat.feature_view] = intervals[mat.feature_view]]
    /\ matpc' = "done"
    /\ mat' = [mat EXCEPT !.stages = Append(@, "apply")]
    /\ UNCHANGED <<store, writeVars, committed, intervals, offline, readVars, delVars, infraVars>>

(***************************************************************************)
(* Specification: two materializations of a feature view, one after the    *)
(* other.                                                                   *)
(***************************************************************************)
\* The time ranges asked for: from one instant to the next, each end naive or
\* aware.
MatRanges ==
    { <<Datetime(t, tz1), Datetime(t + 1, tz2)>> :
          t \in 1..(MaxEnd - 1), tz1 \in {"naive", "utc"}, tz2 \in {"naive", "utc"} }

\* n rows with n different entity keys, all of event time ts.
LongDataAt(n, ts) ==
    [i \in 1..n |-> Row(EntityKey(<<"driver_id">>, <<i>>), FeaturesOf("c1"), ts, None)]

\* What the offline store can return for a range: nothing, one row of the
\* range, or more rows than one minibatch holds (for one range only).
Pulled(s, e) ==
    {<<>>}
    \cup { <<Row(EntityKey(<<"driver_id">>, <<1>>), FeaturesOf("c2"),
                 Datetime(t, "utc"), None)>> : t \in s.t..(e.t - 1) }
    \cup (IF s = Datetime(1, "utc") /\ e = Datetime(2, "utc")
          THEN {LongDataAt(batch_size + 1, s)} ELSE {})

\* The materialized feature view.
MatView == "fv1"

NextMat ==
    \/ \E r \in MatRanges, m \in {None, FieldMapping} :
           MaterializeResolve(MatView, r[1], r[2], m)
    \/ matpc = "resolved" /\ \E d \in Pulled(mat.start_arg, mat.end_arg) : MaterializePull(d)
    \/ MaterializeTransform
    \/ MaterializeConvert
    \/ \E c \in Calls : (c = "c1" \/ callpc["c1"] # "idle") /\ MaterializeCommit(c)
    \/ \E c \in Calls : \E i \in DOMAIN task[c] : WriteMinibatchAttempt(c, i)
    \/ \E c \in Calls : \E i \in DOMAIN task[c] : TransactionCommit(c, i)
    \/ \E c \in Calls : \E i \in DOMAIN task[c] : TransactionConflict(c, i)
    \/ \E c \in Calls : OnlineWriteBatchReturn(c)
    \/ \E c \in Calls : OnlineWriteBatchRaise(c)
    \/ MaterializeAbort
    \/ MaterializeRecord
    \/ MaterializeApply

SpecMat == Init /\ [][NextMat]_vars

(***************************************************************************)
(* Specification: a materialization of a feature view's offline source,    *)
(* then an incremental one.                                                *)
(***************************************************************************)
\* The row of the source for an entity at an instant: its feature value
\* names both (naive datetimes at the odd instants).
SourceRow(k, t) ==
    Row(k, [f \in {"value"} |-> <<"value", k.entity_values[1], t>>],
        Datetime(t, IF t % 2 = 1 THEN "naive" ELSE "utc"), None)

\* The offline sources: any rows, at most one per entity and instant.
Sources ==
    { { SourceRow(kt[1], kt[2]) : kt \in chosen } :
          chosen \in SUBSET (EntityKeys \X (1..(MaxIncrEnd - 1))) }

\* pull_latest_from_table_or_query: of the rows with start <= timestamp < end,
\* the one with the greatest timestamp of each entity, in the order of the
\* entities.
pull_latest_from_table_or_query(rows, start_date, end_date) ==
    LET inrange == { r \in rows : /\ start_date.t <= r.timestamp.t
                                  /\ r.timestamp.t < end_date.t }
        latest == { r \in inrange : \A o \in inrange :
                        o.entity_key = r.entity_key => o.timestamp.t <= r.timestamp.t }
        rank(r) == Cardinality({ o \in latest : o.entity_key.entity_values[1]
                                                    < r.entity_key.entity_values[1] })
    IN  [n \in 1..Cardinality(latest) |-> CHOOSE r \in latest : rank(r) = n - 1]

\* materialize_incremental's start: the end of the most recent interval the
\* feature view has recorded.
most_recent_end_time(fv) == intervals[fv][Len(intervals[fv])][2]

InitIncr ==
    /\ store = [t \in Tables |-> <<>>]
    /\ callpc = [c \in Calls |-> "idle"]
    /\ calltable = [c \in Calls |-> "fv1"]
    /\ calldata = [c \in Calls |-> <<>>]
    /\ batches = [c \in Calls |-> <<>>]
    /\ task = [c \in Calls |-> <<>>]
    /\ callprogress = [c \in Calls |-> FALSE]
    /\ reported = [c \in Calls |-> 0]
    /\ committed = <<>>
    /\ matpc = "idle"
    /\ mat = NoMaterialization
    /\ intervals = [t \in Tables |-> <<>>]
    /\ registry = [t \in Tables |-> <<>>]
    /\ offline \in Sources
    /\ readpc = "idle"
    /\ rd = NoRead
    /\ delpc = "idle"
    /\ del = NoDelete
    /\ marker = [t \in Tables |-> None]
    /\ infrapc = "idle"
    /\ infra = NoInfra

NextIncr ==
    \* materialize(start, end): the test's start is aware, its end naive
    \/ /\ intervals[MatView] = <<>>
       /\ \E e \in 2..(MaxIncrEnd - 1) :
              MaterializeResolve(MatView, Datetime(1, "utc"), Datetime(e, "naive"),
                                 FieldMapping)
    \* materialize_incremental(end)
    \/ /\ Len(intervals[MatView]) = 1
       /\ \E e \in 2..MaxIncrEnd :
              /\ most_recent_end_time(MatView).t < e
              /\ MaterializeResolve(MatView, most_recent_end_time(MatView),
                                    Datetime(e, "naive"), FieldMapping)
    \/ /\ matpc = "resolved"
       /\ MaterializePull(pull_latest_from_table_or_query(
                              offline, make_tzaware(mat.start_date),
                              make_tzaware(mat.end_date)))
    \/ MaterializeTransform
    \/ MaterializeConvert
    \/ \E c \in Calls : (c = "c1" \/ callpc["c1"] # "idle") /\ MaterializeCommit(c)
    \/ \E c \in Calls : \E i \in DOMAIN task[c] : WriteMinibatchAttempt(c, i)
    \/ \E c \in Calls : \E i \in DOMAIN task[c] : TransactionCommit(c, i)
    \/ \E c \in Calls : \E i \in DOMAIN task[c] : TransactionConflict(c, i)
    \/ \E c \in Calls : OnlineWriteBatchReturn(c)
    \/ \E c \in Calls : OnlineWriteBatchRaise(c)
    \/ MaterializeAbort
    \/ MaterializeRecord
    \/ MaterializeApply

SpecIncr == InitIncr /\ [][NextIncr]_vars

(***************************************************************************)
(* Specification: a row whose entity key has two join keys is written and, *)
(* once the write has returned, a key of two join keys is read.            *)
(***************************************************************************)
\* The entity keys of a driver and a customer, with the pairs in either
\* order.
PairKeys ==
    { EntityKey(<<"driver_id", "customer_id">>, <<d, c>>) : d, c \in 1..MaxKeyValue }
    \cup { EntityKey(<<"customer_id", "driver_id">>, <<c, d>>) : d, c \in 1..MaxKeyValue }

NextKeys ==
    \/ \E k \in PairKeys, ts \in EventTimestamps :
           online_write_batch("c1", "fv1", <<Row(k, FeaturesOf("c1"), ts, None)>>, FALSE)
    \/ \E i \in DOMAIN task["c1"] : WriteMinibatchAttempt("c1", i)
    \/ \E i \in DOMAIN task["c1"] : TransactionCommit("c1", i)
    \/ \E i \in DOMAIN task["c1"] : TransactionConflict("c1", i)
    \/ OnlineWriteBatchReturn("c1")
    \/ OnlineWriteBatchRaise("c1")
    \/ callpc["c1"] = "returned" /\ \E k \in PairKeys : online_read("fv1", <<k>>)
    \/ OnlineReadGet
    \/ OnlineReadReturn

SpecKeys == Init /\ [][NextKeys]_vars

(***************************************************************************)
(* Specification: one online_read while an online_write_batch call writes  *)
(* a row to either table; an earlier write has left a record in each.      *)
(***************************************************************************)
\* The rows written earlier: one per table, for different keys.
EarlierRow(table) ==
    IF table = "fv1"
    THEN Row(EntityKey(<<"driver_id">>, <<2>>), FeaturesOf("c2"), Datetime(1, "utc"),
             Datetime(1, "utc"))
    ELSE Row(EntityKey(<<"driver_id">>, <<1>>), FeaturesOf("c2"), Datetime(2, "utc"), None)

\* The store those writes have left.
EarlierStore ==
    [t \in Tables |->
        ApplyPuts(<<>>, PutsOf(<<EarlierRow(t)>>, <<None>>))]

\* The keys read: the written ones and one that is never written.
ReadKeys == EntityKeys \cup {UnwrittenKey}

\* The lists of at most n keys.
RECURSIVE KeyLists(_)
KeyLists(n) ==
    IF n = 0 THEN {<<>>}
    ELSE KeyLists(n - 1) \cup { Append(l, k) : l \in KeyLists(n - 1), k \in ReadKeys }

InitRead ==
    /\ store = EarlierStore
    /\ callpc = [c \in Calls |-> "idle"]
    /\ calltable = [c \in Calls |-> "fv1"]
    /\ calldata = [c \in Calls |-> <<>>]
    /\ batches = [c \in Calls |-> <<>>]
    /\ task = [c \in Calls |-> <<>>]
    /\ callprogress = [c \in Calls |-> FALSE]
    /\ reported = [c \in Calls |-> 0]
    /\ committed = <<>>
    /\ matpc = "idle"
    /\ mat = NoMaterialization
    /\ intervals = [t \in Tables |-> <<>>]
    /\ registry = [t \in Tables |-> <<>>]
    /\ offline = {}
    /\ readpc = "idle"
    /\ rd = NoRead
    /\ delpc = "idle"
    /\ del = NoDelete
    /\ marker = [t \in Tables |-> None]
    /\ infrapc = "idle"
    /\ infra = NoInfra

NextRead ==
    \/ \E d \in CallData("c1"), t \in Tables : online_write_batch("c1", t, d, FALSE)
    \/ \E i \in DOMAIN task["c1"] : WriteMinibatchAttempt("c1", i)
    \/ \E i \in DOMAIN task["c1"] : TransactionCommit("c1", i)
    \/ \E i \in DOMAIN task["c1"] : TransactionConflict("c1", i)
    \/ OnlineWriteBatchReturn("c1")
    \/ OnlineWriteBatchRaise("c1")
    \/ \E t \in Tables, l \in KeyLists(MaxReadKeys) : online_read(t, l)
    \/ OnlineReadGet
    \/ OnlineReadReturn

SpecRead == InitRead /\ [][NextRead]_vars

(***************************************************************************)
(* Specification: one online_write_batch call, with or without a progress  *)
(* callback, of up to MaxProgressRows rows to a table written earlier.     *)
(***************************************************************************)
\* The most rows of the data of the call.
MaxProgressRows == 2

\* The rows of the call: every key and event timestamp, no created timestamp.
ProgressRows == { r \in RowsWith(FeaturesOf("c1")) : r.created_ts = None }

\* The lists of 1 to n of these rows.
RECURSIVE RowLists(_)
RowLists(n) ==
    IF n = 1 THEN { <<r>> : r \in ProgressRows }
    ELSE RowLists(n - 1) \cup { Append(l, r) : l \in RowLists(n - 1), r \in ProgressRows }

NextProgress ==
    \/ \E d \in RowLists(MaxProgressRows), t \in Tables, progress \in BOOLEAN :
           online_write_batch("c1", t, d, progress)
    \/ \E i \in DOMAIN task["c1"] : WriteMinibatchAttempt("c1", i)
    \/ \E i \in DOMAIN task["c1"] : TransactionCommit("c1", i)
    \/ \E i \in DOMAIN task["c1"] : TransactionConflict("c1", i)
    \/ OnlineWriteBatchReturn("c1")
    \/ OnlineWriteBatchRaise("c1")

SpecProgress == InitRead /\ [][NextProgress]_vars

(***************************************************************************)
(* Specification: a call that writes one or two rows in one minibatch and  *)
(* a call that writes one row, to the same table written earlier, with     *)
(* write conflicts and other backend errors.                               *)
(***************************************************************************)
\* The data of the first call: two rows, the first of an aware timestamp.
AtomicData == { d \in RowLists(2) : Len(d) = 2 /\ d[1].timestamp.tz = "utc" }

\* The row of the second call: of an aware timestamp, no created timestamp.
AtomicRows ==
    { r \in RowsWith(FeaturesOf("c2")) : r.created_ts = None /\ r.timestamp.tz = "utc" }

NextAtomic ==
    \/ \E d \in AtomicData : online_write_batch("c1", "fv1", d, FALSE)
    \/ \E r \in AtomicRows : online_write_batch("c2", "fv1", <<r>>, FALSE)
    \/ \E c \in Calls : \E i \in DOMAIN task[c] : WriteMinibatchAttempt(c, i)
    \/ \E c \in Calls : \E i \in DOMAIN task[c] : TransactionCommit(c, i)
    \/ \E c \in Calls : \E i \in DOMAIN task[c] : TransactionConflict(c, i)
    \/ \E c \in Calls : \E i \in DOMAIN task[c] : BackendError(c, i)
    \/ \E c \in Calls : OnlineWriteBatchReturn(c)
    \/ \E c \in Calls : OnlineWriteBatchRaise(c)

SpecAtomic == InitRead /\ [][NextAtomic]_vars

(***************************************************************************)
(* Specification: _delete_all_values on a table of up to MaxStored rows,   *)
(* with no writer.                                                         *)
(***************************************************************************)
\* A table that holds n rows.
StoredRows(n) ==
    [d \in { DocOfRank(r) : r \in 1..n } |->
        RowProperties(Row(EntityKey(<<"driver_id">>, <<Rank(d)>>), FeaturesOf("c1"),
                          Datetime(1, "utc"), None))]

\* The fewest rows of a table counted as small.
SmallStored == 30

\* The sizes of the deleted table: empty and small ones, one page less a row,
\* exactly one page, a page and a row, exactly two pages, and the most.
DeleteSizes ==
    (0..SmallStored) \cup {fetch_limit - 1, fetch_limit, fetch_limit + 1,
                           2 * fetch_limit, MaxStored}

\* The rows of the table that is not deleted.
OtherRows == StoredRows(2)

InitDelete ==
    /\ \E n \in DeleteSizes : store = [t \in Tables |-> IF t = "fv1" THEN StoredRows(n)
                                                        ELSE OtherRows]
    /\ callpc = [c \in Calls |-> "idle"]
    /\ calltable = [c \in Calls |-> "fv1"]
    /\ calldata = [c \in Calls |-> <<>>]
    /\ batches = [c \in Calls |-> <<>>]
    /\ task = [c \in Calls |-> <<>>]
    /\ callprogress = [c \in Calls |-> FALSE]
    /\ reported = [c \in Calls |-> 0]
    /\ committed = <<>>
    /\ matpc = "idle"
    /\ mat = NoMaterialization
    /\ intervals = [t \in Tables |-> <<>>]
    /\ registry = [t \in Tables |-> <<>>]
    /\ offline = {}
    /\ readpc = "idle"
    /\ rd = NoRead
    /\ delpc = "idle"
    /\ del = NoDelete
    /\ marker = [t \in Tables |-> None]
    /\ infrapc = "idle"
    /\ infra = NoInfra

NextDelete ==
    \/ delete_all_values("fv1")
    \/ DeleteQuery
    \/ DeletePage

\* The function runs on: no step of it waits for anything but the backend's
\* answer.
SpecDelete == InitDelete /\ [][NextDelete]_vars /\ WF_vars(NextDelete)

(***************************************************************************)
(* Specification: one update_infra or teardown_infra call on tables that   *)
(* hold up to MaxInfraRows rows each, with or without a Table entity.      *)
(***************************************************************************)
\* The most rows a table holds when update_infra or teardown_infra is called.
MaxInfraRows == 2

\* The lists of at most n tables.
RECURSIVE TableLists(_)
TableLists(n) ==
    IF n = 0 THEN {<<>>}
    ELSE TableLists(n - 1) \cup { Append(l, t) : l \in TableLists(n - 1), t \in Tables }

\* The tables of a list.
Listed(l) == { l[n] : n \in DOMAIN l }

\* The Table entity an earlier update_infra has left.
EarlierMarker == Update(EmptyEntity, [created_ts |-> Datetime(1, "naive")])

InitInfra ==
    /\ store \in [Tables -> { StoredRows(n) : n \in 0..MaxInfraRows }]
    /\ callpc = [c \in Calls |-> "idle"]
    /\ calltable = [c \in Calls |-> "fv1"]
    /\ calldata = [c \in Calls |-> <<>>]
    /\ batches = [c \in Calls |-> <<>>]
    /\ task = [c \in Calls |-> <<>>]
    /\ callprogress = [c \in Calls |-> FALSE]
    /\ reported = [c \in Calls |-> 0]
    /\ committed = <<>>
    /\ matpc = "idle"
    /\ mat = NoMaterialization
    /\ intervals = [t \in Tables |-> <<>>]
    /\ registry = [t \in Tables |-> <<>>]
    /\ offline = {}
    /\ readpc = "idle"
    /\ rd = NoRead
    /\ delpc = "idle"
    /\ del = NoDelete
    /\ marker \in [Tables -> {None, EarlierMarker}]
    /\ infrapc = "idle"
    /\ infra = NoInfra

\* The caller gives update_infra tables to delete and tables to keep that
\* have no table in common.
NextInfra ==
    \/ \E d \in TableLists(MaxListed), k \in TableLists(MaxListed), partial \in BOOLEAN :
           Listed(d) \cap Listed(k) = {} /\ update_infra(d, k, partial)
    \/ \E now \in 1..MaxTs : UpdateInfraKeep(now)
    \/ UpdateInfraDeleteRows
    \/ UpdateInfraDeleteMarker
    \/ UpdateInfraReturn
    \/ \E l \in TableLists(MaxListed) : teardown_infra(l)
    \/ TeardownDeleteRows
    \/ TeardownDeleteMarker
    \/ TeardownReturn
    \/ DeleteQuery
    \/ DeletePage

SpecInfra == InitInfra /\ [][NextInfra]_vars

(***************************************************************************)
(* Properties of the write path.                                           *)
(***************************************************************************)
\* The entity holds exactly the content of the row: its key, its feature
\* mapping and its timestamps, as instants.
HoldsRow(entity, row) ==
    /\ entity # None
    /\ DOMAIN entity = {"key", "values", "event_ts", "created_ts"}
    /\ entity.key = SerializeToString(row.entity_key)
    /\ DOMAIN entity.values = DOMAIN row.features
    /\ \A f \in DOMAIN row.features : ParseFromString(entity.values[f]) = row.features[f]
    /\ entity.event_ts = Datetime(row.timestamp.t, "utc")
    /\ IF row.created_ts = None THEN entity.created_ts = None
       ELSE entity.created_ts = Datetime(row.created_ts.t, "utc")

\* The rows of the minibatch m = <<call, index>>.
RowsOf(m) == batches[m[1]][m[2]]

\* The entity stored for the key of `row` in the table call c writes.
StoredFor(c, row) ==
    Get(store, calltable[c], compute_datastore_entity_id(row.entity_key))

\* Exactly two writes have been committed so far, of one row each, to the same
\* table and for the same entity key.
TwoWritesOfOneKey ==
    /\ Len(committed) = 2
    /\ Len(RowsOf(committed[1])) = 1
    /\ Len(RowsOf(committed[2])) = 1
    /\ calltable[committed[1][1]] = calltable[committed[2][1]]
    /\ RowsOf(committed[1])[1].entity_key = RowsOf(committed[2])[1].entity_key

\* C1 (freshness monotonicity): of two rows with the same entity key and
\* different event timestamps written one after the other, the stored record is
\* the row with the later event timestamp, whichever was written first.
C1_FreshnessMonotonicity ==
    TwoWritesOfOneKey =>
        LET first == RowsOf(committed[1])[1]
            second == RowsOf(committed[2])[1]
            stored == StoredFor(committed[1][1], first)
        IN  /\ first.timestamp.t < second.timestamp.t => HoldsRow(stored, second)
            /\ first.timestamp.t > second.timestamp.t => HoldsRow(stored, first)

\* C1: value 0.3 at instant 2 was written, then value 0.1 at instant 1 for the
\* same key; both calls have returned and 0.3 is stored.
C1_Witness ==
    /\ TwoWritesOfOneKey
    /\ committed = << <<"c2", 1>>, <<"c1", 1>> >>
    /\ callpc["c1"] = "returned" /\ callpc["c2"] = "returned"
    /\ RowsOf(<<"c2", 1>>)[1].timestamp.t = 2
    /\ RowsOf(<<"c1", 1>>)[1].timestamp.t = 1
    /\ StoredFor("c1", RowsOf(<<"c1", 1>>)[1]).values["value"] = SerializeToString("0.3")

\* Two committed rows with equal event instants that both carry a created
\* timestamp, the created timestamps differing.
CreationTie ==
    /\ TwoWritesOfOneKey
    /\ RowsOf(committed[1])[1].timestamp.t = RowsOf(committed[2])[1].timestamp.t
    /\ RowsOf(committed[1])[1].created_ts # None
    /\ RowsOf(committed[2])[1].created_ts # None
    /\ RowsOf(committed[1])[1].created_ts.t # RowsOf(committed[2])[1].created_ts.t

\* C2 (tie-break by creation time): of two rows with the same entity key, equal
\* event timestamps and different created timestamps, the stored record is the
\* row created later, whichever was written first.
C2_TieBreakByCreation ==
    CreationTie =>
        LET first == RowsOf(committed[1])[1]
            second == RowsOf(committed[2])[1]
            stored == StoredFor(committed[1][1], first)
        IN  HoldsRow(stored, IF first.created_ts.t < second.created_ts.t
                             THEN second ELSE first)

\* C2: the row created later was written first, and the one created earlier
\* was skipped.
C2_Witness ==
    /\ CreationTie
    /\ RowsOf(committed[1])[1].created_ts.t > RowsOf(committed[2])[1].created_ts.t
    /\ task[committed[2][1]][committed[2][2]].row_count = 0
    /\ HoldsRow(StoredFor(committed[1][1], RowsOf(committed[1])[1]), RowsOf(committed[1])[1])

\* C3 (no stale overwrite under concurrency): in every step, whatever the
\* interleaving of the minibatch transactions, a stored record stays stored
\* and its event timestamp does not move back.
C3_NoStaleOverwrite ==
    [][\A t \in Tables : \A d \in DOMAIN store[t] :
          /\ d \in DOMAIN store'[t]
          /\ store'[t][d].event_ts.t >= store[t][d].event_ts.t]_vars

\* C3: two transactions for the same key run at the same time, both having
\* looked up an empty table; the fresher row has been committed while the
\* other transaction still holds the put of its staler row.
C3_Witness ==
    /\ committed = << <<"c2", 1>> >>
    /\ task["c1"] # <<>>
    /\ task["c1"][1].pc = "txn"
    /\ task["c1"][1].reads = <<None>>
    /\ task["c2"][1].reads = <<None>>
    /\ Len(task["c1"][1].puts) = 1
    /\ RowsOf(<<"c1", 1>>)[1].entity_key = RowsOf(<<"c2", 1>>)[1].entity_key
    /\ RowsOf(<<"c1", 1>>)[1].timestamp.t < RowsOf(<<"c2", 1>>)[1].timestamp.t
    /\ HoldsRow(StoredFor("c2", RowsOf(<<"c2", 1>>)[1]), RowsOf(<<"c2", 1>>)[1])

\* C4 (retry bound): a minibatch is attempted at most num_retries_on_conflict
\* times; one that ends written was committed after at most two conflicts (one
\* attempt more than conflicts), and one that ends in the Conflict error met a
\* conflict in each of exactly num_retries_on_conflict attempts and wrote nothing.
C4_RetryBound ==
    \A c \in Calls : \A i \in DOMAIN task[c] :
        LET t == task[c][i]
            isCommitted == \E n \in DOMAIN committed : committed[n] = <<c, i>>
        IN  /\ t.attempts <= num_retries_on_conflict
            /\ t.pc = "done" =>
                   /\ t.conflicts <= num_retries_on_conflict - 1
                   /\ t.attempts = t.conflicts + 1
                   /\ isCommitted
            /\ t.pc = "raised" =>
                   /\ t.conflicts = num_retries_on_conflict
                   /\ t.attempts = num_retries_on_conflict
                   /\ ~isCommitted
            /\ t.conflicts = num_retries_on_conflict => t.pc = "raised"
            /\ callpc[c] = "returned" => t.pc = "done"
            /\ (callpc[c] = "raised" /\ Len(task[c]) = 1) => t.pc = "raised"

\* C4: one call was committed after exactly two conflicts and has returned;
\* the other met three conflicts and has raised.
C4_Witness ==
    /\ task["c1"] # <<>> /\ task["c2"] # <<>>
    /\ task["c1"][1].pc = "done" /\ task["c1"][1].conflicts = 2
    /\ callpc["c1"] = "returned"
    /\ task["c2"][1].pc = "raised" /\ task["c2"][1].attempts = 3
    /\ callpc["c2"] = "raised"

(***************************************************************************)
(* Properties of _to_minibatches.                                          *)
(***************************************************************************)
\* The minibatches put one after the other.
RECURSIVE Concat(_)
Concat(bs) == IF bs = <<>> THEN <<>> ELSE Head(bs) \o Concat(Tail(bs))

\* C5 (batch size bound): the data of N rows of a call is split into exactly
\* ceil(N / batch_size) minibatches (none for N = 0) of 1 to batch_size rows
\* each, which give back the data when put one after the other; no transaction
\* looks up or puts more than batch_size rows.
C5_BatchSizeBound ==
    \A c \in Calls :
        callpc[c] # "idle" =>
            /\ Len(batches[c]) = CeilDiv(Len(calldata[c]), batch_size)
            /\ \A i \in DOMAIN batches[c] :
                   Len(batches[c][i]) >= 1 /\ Len(batches[c][i]) <= batch_size
            /\ Concat(batches[c]) = calldata[c]
            /\ DOMAIN task[c] = DOMAIN batches[c]
            /\ \A i \in DOMAIN task[c] :
                   /\ Len(task[c][i].reads) <= batch_size
                   /\ Len(task[c][i].puts) <= batch_size

\* C5: data of 2 * batch_size + 1 rows was written in three minibatches, the
\* last of one row, and the call has returned.
C5_Witness ==
    /\ callpc["c1"] = "returned"
    /\ Len(calldata["c1"]) = 2 * batch_size + 1
    /\ Len(batches["c1"]) = 3
    /\ Len(batches["c1"][3]) = 1
    /\ Len(task["c1"][1].puts) = batch_size
    /\ Cardinality(DOMAIN store["fv1"]) = 2 * batch_size + 1

(***************************************************************************)
(* Properties of materialize_single_feature_view.                          *)
(***************************************************************************)
\* The online_write_batch call of the current materialization has raised.
CommitFailed == mat.call # "none" /\ callpc[mat.call] = "raised"

\* C6 (a failed commit records nothing): when online_write_batch raises, the
\* materialization reaches neither Record nor the registry: the interval list
\* of the feature view and what the registry holds of it stay as they were
\* when the materialization started.
C6_FailedCommitRecordsNothing ==
    CommitFailed =>
        /\ matpc \in {"commit", "failed"}
        /\ \A n \in DOMAIN mat.stages : mat.stages[n] \notin {"record", "apply"}
        /\ intervals[mat.feature_view] = mat.intervals_before
        /\ registry[mat.feature_view] = mat.registry_before

\* C6: the materialization has failed because one minibatch ran out of
\* attempts, while another minibatch of the same call is committed and its
\* rows are stored; no interval is recorded.
C6_Witness ==
    /\ matpc = "failed"
    /\ \E i, j \in DOMAIN task[mat.call] :
           task[mat.call][i].pc = "raised" /\ task[mat.call][j].pc = "done"
    /\ Cardinality(DOMAIN store[mat.feature_view]) > 0
    /\ intervals[mat.feature_view] = <<>>
    /\ registry[mat.feature_view] = <<>>

\* The interval a materialization records: its arguments as aware datetimes.
AwareInterval == <<Datetime(mat.start_arg.t, "utc"), Datetime(mat.end_arg.t, "utc")>>

\* After Record the list is the one before with the interval at its end, and
\* after the registry call the registry holds that list.
C7_RecordedState ==
    /\ matpc \in {"recorded", "done"} =>
           intervals[mat.feature_view] = Append(mat.intervals_before, AwareInterval)
    /\ matpc = "recorded" => registry[mat.feature_view] = mat.registry_before
    /\ matpc = "done" => registry[mat.feature_view] = intervals[mat.feature_view]

\* An interval list changes only by Record, after the write returned, and
\* only by one interval added at its end; the registry changes only by
\* taking over the list of the feature view.
C7_RecordStep ==
    \A fv \in Tables :
        /\ intervals'[fv] # intervals[fv] =>
               /\ matpc = "commit" /\ matpc' = "recorded"
               /\ callpc[mat.call] = "returned"
               /\ fv = mat.feature_view
               /\ Len(intervals'[fv]) = Len(intervals[fv]) + 1
               /\ SubSeq(intervals'[fv], 1, Len(intervals[fv])) = intervals[fv]
        /\ registry'[fv] # registry[fv] =>
               /\ matpc = "recorded" /\ matpc' = "done"
               /\ registry'[fv] = intervals[fv]

\* C7 (intervals are appended): a successful materialization appends exactly
\* one interval, the timezone-aware (start, end), at the end of the feature
\* view's list and then hands the feature view to the registry; the list
\* changes in no other way.
C7_IntervalsAppended == []C7_RecordedState /\ [][C7_RecordStep]_vars

\* C7: two materializations have succeeded, the second given a naive start;
\* both intervals are in the list, in order, and in the registry.
C7_Witness ==
    /\ matpc = "done"
    /\ mat.start_arg.tz = "naive"
    /\ Len(intervals[mat.feature_view]) = 2
    /\ intervals[mat.feature_view][2] = AwareInterval
    /\ intervals[mat.feature_view][1] # AwareInterval
    /\ registry[mat.feature_view] = intervals[mat.feature_view]

(***************************************************************************)
(* Properties of online_read.                                              *)
(***************************************************************************)
\* The result expected for an entity key when `entity` is what the store holds
\* for it: its event timestamp and its features as ValueProtos, or
\* (None, None) when it holds nothing.
ExpectedResult(entity) ==
    IF entity = None THEN <<None, None>>
    ELSE <<entity.event_ts,
           [f \in DOMAIN entity.values |-> ParseFromString(entity.values[f])]>>

\* A turn of the loop appends, at the end of the result, what the store holds
\* at that moment for the next key of the list.
C8_ReadStep ==
    rd' # rd /\ readpc = "reading" =>
        LET entity_key == rd.entity_keys[Len(rd.result) + 1]
            entity == Get(store, rd.table, compute_datastore_entity_id(entity_key))
        IN  /\ Len(rd.result) < Len(rd.entity_keys)
            /\ rd'.result = Append(rd.result, ExpectedResult(entity))

\* The read never stops short: while it runs a step is possible, and it
\* returns one result per key.
C8_ReadState ==
    /\ Len(rd.result) <= Len(rd.entity_keys)
    /\ readpc = "reading" => ENABLED (OnlineReadGet \/ OnlineReadReturn)
    /\ readpc = "returned" => Len(rd.result) = Len(rd.entity_keys)

\* C8 (one result per key): online_read returns one result per entity key, in
\* the order of the keys (repeated keys and the empty list included): the
\* stored event timestamp and features when the table holds a record for the
\* key, (None, None) when it holds none; a missing record is no error.
C8_OneResultPerKey == []C8_ReadState /\ [][C8_ReadStep]_vars

\* C8: a read of a missing key followed by a stored key of table fv1 has
\* returned (None, None) and then the record, in this order.
C8_Witness ==
    /\ readpc = "returned"
    /\ rd.table = "fv1"
    /\ rd.entity_keys = <<UnwrittenKey, EarlierRow("fv1").entity_key>>
    /\ rd.result = << <<None, None>>,
                      <<EarlierRow("fv1").timestamp, EarlierRow("fv1").features>> >>

\* The freshness rule lets the row replace the entity: there is none, or it
\* is older, or it has the same event time and no later created timestamp.
NoFresherRecord(entity, row) ==
    \/ entity = None
    \/ entity.event_ts.t < row.timestamp.t
    \/ /\ entity.event_ts.t = row.timestamp.t
       /\ \/ row.created_ts = None
          \/ entity.created_ts = None
          \/ entity.created_ts.t <= row.created_ts.t

\* C9 (round trip): when a row was written into a table that held no fresher
\* record for its entity key, a later online_read of that key in that table
\* returns the features that were written and the event timestamp that was
\* written (the same instant, and the same datetime when it was given aware).
C9_RoundTrip ==
    \A j \in DOMAIN rd.result :
        \A n \in 1..rd.seen[j] :
            LET c == committed[n][1]
                row == RowsOf(committed[n])[1]
                before == task[c][committed[n][2]].reads[1]
            IN  (/\ n = rd.seen[j]
                 /\ calltable[c] = rd.table
                 /\ row.entity_key = rd.entity_keys[j]
                 /\ NoFresherRecord(before, row))
                => /\ rd.result[j][2] = row.features
                   /\ rd.result[j][1] # None
                   /\ rd.result[j][1].t = row.timestamp.t
                   /\ row.timestamp.tz = "utc" => rd.result[j][1] = row.timestamp

\* C9: a row with a naive event timestamp replaced the older record of its
\* key, and the read that followed returned its features and its instant.
C9_Witness ==
    /\ readpc = "returned"
    /\ Len(committed) = 1
    /\ rd.seen = <<1>>
    /\ rd.table = calltable["c1"]
    /\ rd.entity_keys = <<calldata["c1"][1].entity_key>>
    /\ task["c1"][1].reads[1] # None
    /\ calldata["c1"][1].timestamp = Datetime(2, "naive")
    /\ rd.result = << <<Datetime(2, "utc"), FeaturesOf("c1")>> >>

(***************************************************************************)
(* Properties of _delete_all_values.                                       *)
(***************************************************************************)
\* No query hands over more than fetch_limit entities; once the function has
\* returned, no row is left under the table, every row it held was deleted
\* once, in ceil(rows / fetch_limit) pages followed by one empty query, and
\* the other table is as it was.
C10_DeleteState ==
    /\ Len(del.entities) <= fetch_limit
    /\ delpc = "returned" =>
           /\ DOMAIN store[del.table] = {}
           /\ del.deleted = del.initial
           /\ del.queries = CeilDiv(del.initial, fetch_limit) + 1
           /\ del.initial = 0 => del.deleted = 0
           /\ \A t \in Tables \ {del.table} : store[t] = OtherRows

\* C10 (paginated deletion): _delete_all_values, with no concurrent writer,
\* returns after fetch/delete cycles of at most fetch_limit rows each, whatever
\* the number of rows, and then no row remains under the table; on an empty
\* table it returns without deleting anything.
C10_DeleteAllTerminates == <>(delpc = "returned") /\ []C10_DeleteState

\* C10: a table of more rows than two pages was emptied by three pages and
\* four queries.
C10_Witness ==
    /\ delpc = "returned"
    /\ del.initial > 2 * fetch_limit
    /\ del.deleted = del.initial
    /\ del.queries = 4
    /\ DOMAIN store["fv1"] = {}

(***************************************************************************)
(* Properties of update_infra and teardown_infra.                          *)
(***************************************************************************)
\* The table the delete loop is at.
CurrentTable == infra.tables_to_delete[infra.deleted + 1]

\* After update_infra has returned: every kept table has a Table entity that
\* carries a creation time, and its rows are as they were; every deleted
\* table has neither rows nor a Table entity; a table in neither list is as
\* it was.
C11_Returned ==
    (infrapc = "returned" /\ infra.op = "update_infra") =>
        /\ \A t \in Listed(infra.tables_to_keep) :
               /\ marker[t] # None
               /\ "created_ts" \in DOMAIN marker[t]
               /\ marker[t].created_ts \in { Datetime(n, "naive") : n \in 1..MaxTs }
               /\ store[t] = infra.store_before[t]
        /\ \A t \in Listed(infra.tables_to_delete) :
               /\ DOMAIN store[t] = {}
               /\ marker[t] = None
        /\ \A t \in Tables \ (Listed(infra.tables_to_keep) \cup Listed(infra.tables_to_delete)) :
               /\ store[t] = infra.store_before[t]
               /\ marker[t] = infra.marker_before[t]

\* The turn of the delete loop for a table ends, with the removal of its
\* Table entity, only when no row is left under the table; and a Table entity
\* disappears only by such a step.
C11_Order ==
    infra.op = "update_infra" =>
        /\ infra'.deleted # infra.deleted =>
               /\ DOMAIN store[CurrentTable] = {}
               /\ marker'[CurrentTable] = None
        /\ \A t \in Tables :
               (marker[t] # None /\ marker'[t] = None) =>
                   /\ infra'.deleted = infra.deleted + 1
                   /\ t = CurrentTable
                   /\ DOMAIN store[t] = {}

RemovalDone(listed) ==
    \A t \in Tables :
        IF t \in Listed(listed)
        THEN DOMAIN store[t] = {} /\ marker[t] = None
        ELSE store[t] = infra.store_before[t] /\ marker[t] = infra.marker_before[t]

\* teardown_infra, and update_infra given the same tables to delete and none
\* to keep, return in the state RemovalDone describes.
C12_Returned ==
    (/\ infrapc = "returned"
     /\ \/ infra.op = "teardown_infra"
        \/ infra.op = "update_infra" /\ infra.tables_to_keep = <<>>)
    => RemovalDone(infra.tables_to_delete)

\* teardown_infra touches the store only through _delete_all_values of the
\* table its loop is at, writes no Table entity, and removes the Table entity
\* of that table once its rows are gone.
C12_Steps ==
    infra.op = "teardown_infra" =>
        \A t \in Tables :
            /\ store'[t] # store[t] => (infrapc = "rows" /\ t = CurrentTable /\ del.table = t)
            /\ marker'[t] # marker[t] =>
                   /\ infrapc = "rows" /\ t = CurrentTable
                   /\ DOMAIN store[t] = {}
                   /\ marker'[t] = None

\* C12 (teardown_infra): teardown_infra does, for every listed table,
\* deleteAll and then the removal of the table's metadata marker: afterwards
\* no listed table has rows or a marker, the other tables are untouched, and
\* update_infra with the same tables to delete and none to keep ends in the
\* same state.
C12_TeardownInfra == []C12_Returned /\ [][C12_Steps]_vars

\* C12: teardown_infra of both tables, each holding rows and a marker, has
\* returned and nothing is left of them.
C12_Witness ==
    /\ infrapc = "returned"
    /\ infra.op = "teardown_infra"
    /\ infra.tables_to_delete = <<"fv2", "fv1">>
    /\ \A t \in Tables : /\ Cardinality(DOMAIN infra.store_before[t]) = MaxInfraRows
                          /\ infra.marker_before[t] # None
                          /\ DOMAIN store[t] = {}
                          /\ marker[t] = None

(***************************************************************************)
(* Properties of the progress callback.                                    *)
(***************************************************************************)
\* C13 (progress callback): in an attempt of a minibatch the progress
\* callback, when one is given, is invoked once for every row of the
\* minibatch, the rows the freshness rule skips included; without a callback
\* nothing is invoked, and the rows are put and committed all the same.
C13_ProgressPerRow ==
    \A c \in Calls : \A i \in DOMAIN task[c] :
        task[c][i].pc \in {"txn", "done"} =>
            /\ callprogress[c] => task[c][i].progress_calls = Len(batches[c][i])
            /\ ~callprogress[c] => (task[c][i].progress_calls = 0 /\ reported[c] = 0)
            /\ task[c][i].puts = PutsOf(batches[c][i], task[c][i].reads)

(***************************************************************************)
(* Properties of pool.map.                                                 *)
(***************************************************************************)
\* The rows of minibatch i of call c are stored.
Stored(c, i) ==
    \A j \in DOMAIN batches[c][i] :
        HoldsRow(StoredFor(c, batches[c][i][j]), batches[c][i][j])

\* C14 (minibatches are independent): when a minibatch of a call fails, every
\* other minibatch is still to be run, is being run, or has come to its
\* commit or to the end of its own attempts; the call raises only after every
\* minibatch has finished in one of these two ways, and the rows of those
\* that committed are stored.
C14_MinibatchesIndependent ==
    \A c \in Calls : \A i \in DOMAIN task[c] :
        /\ task[c][i].pc \in {"queued", "txn", "retry", "done", "raised"}
        /\ callpc[c] = "raised" =>
               /\ task[c][i].pc \in {"done", "raised"}
               /\ task[c][i].attempts >= 1
               /\ task[c][i].pc = "done" => Stored(c, i)

\* The rows the two online_write_batch calls of the materializations were
\* given for an entity key.
PulledFor(k) ==
    { r \in UNION { { calldata[c][n] : n \in DOMAIN calldata[c] } : c \in Calls } :
          r.entity_key = k }

\* Both materializations are recorded.
BothRecorded == matpc = "done" /\ Len(intervals[MatView]) = 2

\* C15: after a materialize over [s, e) and an incremental materialize up to
\* e2, the second range starts at e and the store holds for every entity key
\* the row of the greatest event timestamp among the rows the two runs
\* pulled, and nothing for a key neither run pulled.
C15_IncrementalHoldsLatest ==
    BothRecorded =>
        /\ intervals[MatView][2][1] = intervals[MatView][1][2]
        /\ \A k \in EntityKeys :
               LET doc == compute_datastore_entity_id(k)
               IN  IF PulledFor(k) = {}
                   THEN doc \notin DOMAIN store[MatView]
                   ELSE /\ doc \in DOMAIN store[MatView]
                        /\ \E r \in PulledFor(k) :
                               /\ \A o \in PulledFor(k) : o.timestamp.t <= r.timestamp.t
                               /\ HoldsRow(store[MatView][doc], r)

\* One key was pulled by both runs and holds the second run's row; the other
\* was pulled by the first run only and keeps that row.
C15_Witness ==
    /\ BothRecorded
    /\ \E k1, k2 \in EntityKeys :
           /\ k1 # k2
           /\ \E n \in DOMAIN calldata["c1"], m \in DOMAIN calldata["c2"] :
                  /\ calldata["c1"][n].entity_key = k1
                  /\ calldata["c2"][m].entity_key = k1
                  /\ calldata["c1"][n].timestamp.t < calldata["c2"][m].timestamp.t
                  /\ HoldsRow(store[MatView][compute_datastore_entity_id(k1)],
                              calldata["c2"][m])
           /\ \E n \in DOMAIN calldata["c1"] :
                  /\ calldata["c1"][n].entity_key = k2
                  /\ \A m \in DOMAIN calldata["c2"] : calldata["c2"][m].entity_key # k2
                  /\ HoldsRow(store[MatView][compute_datastore_entity_id(k2)],
                              calldata["c1"][n])

\* The (join key name, value) pairs of an entity key.
Pairs(k) == { <<k.join_keys[i], k.entity_values[i]>> : i \in DOMAIN k.join_keys }

\* C16: two entity keys with the same (join key name, value) pairs, in any
\* order, serialize to the same bytes and get the same row identifier; so a
\* read that follows a write of the same key content returns the row written.
C16_RowIdentifierDeterministic ==
    \A n \in DOMAIN calldata["c1"] : \A m \in DOMAIN rd.entity_keys :
        LET row == calldata["c1"][n]
            k1 == row.entity_key
            k2 == rd.entity_keys[m]
        IN  Pairs(k1) = Pairs(k2) =>
                /\ serialize_entity_key(k1) = serialize_entity_key(k2)
                /\ compute_datastore_entity_id(k1) = compute_datastore_entity_id(k2)
                /\ readpc = "returned" =>
                       rd.result[m] = <<make_tzaware(row.timestamp), row.features>>

\* A row was written under a key and read back under the key with the same
\* pairs in the other order.
C16_Witness ==
    /\ readpc = "returned"
    /\ \E n \in DOMAIN calldata["c1"] : \E m \in DOMAIN rd.entity_keys :
           /\ Pairs(calldata["c1"][n].entity_key) = Pairs(rd.entity_keys[m])
           /\ calldata["c1"][n].entity_key # rd.entity_keys[m]
           /\ rd.result[m][2] = calldata["c1"][n].features

\* Every put of the list is in the table of the store s: for a document put
\* more than once, the last put.
AllVisible(s, table, puts) ==
    \A n \in DOMAIN puts :
        (\A m \in DOMAIN puts : m > n => puts[m].doc # puts[n].doc) =>
            /\ puts[n].doc \in DOMAIN s[table]
            /\ s[table][puts[n].doc] = puts[n].entity

\* The store s2 differs from s1 in nothing but the documents put.
NothingElse(s1, s2, table, puts) ==
    \A t \in Tables : \A doc \in DOMAIN s1[t] \cup DOMAIN s2[t] :
        (t # table \/ \A n \in DOMAIN puts : puts[n].doc # doc) =>
            Get(s1, t, doc) = Get(s2, t, doc)

\* A step of minibatch i of call c, seen from the store.
C17_Step(c, i) ==
    LET before == task[c][i]
        after == task'[c][i]
        data == batches[c][i]
    IN  \* the attempt commits: every put it buffered becomes visible at once
        /\ (before.pc = "txn" /\ after.pc = "done") =>
               /\ AllVisible(store', calltable[c], before.puts)
               /\ NothingElse(store, store', calltable[c], before.puts)
        \* the attempt ends in a conflict or another error: nothing is written
        /\ (before.pc = "txn" /\ after.pc \in {"retry", "raised"}) => store' = store
        \* an attempt, the first or a retry, processes every row of the minibatch
        \* against the store as it is then, and counts from zero
        /\ (before.pc \in {"queued", "retry"} /\ after.pc = "txn") =>
               /\ store' = store
               /\ Len(after.reads) = Len(data)
               /\ \A j \in DOMAIN data :
                      after.reads[j] = Get(store, calltable[c],
                                           compute_datastore_entity_id(data[j].entity_key))
               /\ after.puts = PutsOf(data, after.reads)
               /\ after.row_count = Len(after.puts)

\* C17: a minibatch is atomic.  The store changes only when an attempt
\* commits, and then all the puts of the attempt become visible together; an
\* attempt that ends in a conflict or another error leaves the store as it
\* was; a retry processes the whole minibatch again from its first row.
C17_MinibatchAtomic ==
    [][/\ \A c \in Calls : \A i \in DOMAIN task[c] :
              i \in DOMAIN task'[c] => C17_Step(c, i)
       /\ store' # store =>
              \E c \in Calls : \E i \in DOMAIN task[c] :
                  /\ i \in DOMAIN task'[c]
                  /\ task[c][i].pc = "txn"
                  /\ task'[c][i].pc = "done"]_vars

\* A minibatch of two rows has lost an attempt to a conflict and committed
\* both its rows in the next; the minibatch of the other call ended in an
\* error.
C17_Witness ==
    /\ callpc["c1"] = "returned"
    /\ task["c1"][1].conflicts = 1
    /\ Len(task["c1"][1].puts) = 2
    /\ task["c1"][1].puts[1].doc # task["c1"][1].puts[2].doc
    /\ AllVisible(store, "fv1", task["c1"][1].puts)
    /\ callpc["c2"] = "raised"
    /\ task["c2"][1].errors = 1

\* The freshness rule as stated: a record exists and is strictly newer by
\* event timestamp, or equally new and, both created timestamps being
\* present, computed strictly later.
MustSkip(record, row) ==
    /\ record # None
    /\ \/ record.event_ts.t > row.timestamp.t
       \/ /\ record.event_ts.t = row.timestamp.t
          /\ row.created_ts # None
          /\ record.created_ts # None
          /\ record.created_ts.t > row.created_ts.t

\* The one-row minibatch of call c: what its attempt decided, and what its
\* commit did to the store.
C18_Decision(c) ==
    LET before == task[c][1]
        after == task'[c][1]
        row == batches[c][1][1]
        doc == compute_datastore_entity_id(row.entity_key)
    IN  /\ (before.pc \in {"queued", "retry"} /\ after.pc = "txn") =>
               LET record == Get(store, calltable[c], doc)
               IN  /\ after.reads = <<record>>
                   /\ MustSkip(record, row) <=> after.puts = <<>>
                   /\ ~MustSkip(record, row) =>
                          /\ Len(after.puts) = 1
                          /\ after.puts[1].doc = doc
                          /\ HoldsRow(after.puts[1].entity, row)
        /\ (before.pc = "txn" /\ after.pc = "done") =>
               LET record == Get(store, calltable[c], doc)
               IN  IF MustSkip(record, row)
                   THEN store' = store
                   ELSE /\ HoldsRow(Get(store', calltable[c], doc), row)
                        /\ NothingElse(store, store', calltable[c], before.puts)

\* C18: the row is skipped exactly when the freshness rule says so; a skip
\* leaves the stored record as it is, and any other row replaces the record's
\* key, feature mapping and timestamps by its own, no feature of the old
\* record surviving.
C18_ExactFreshnessRule ==
    [][\A c \in Calls :
          (DOMAIN task[c] = {1} /\ DOMAIN task'[c] = {1} /\ Len(batches[c][1]) = 1)
              => C18_Decision(c)]_vars

\* A row of the same event time as the stored record, without a created
\* timestamp, has replaced a record that had one and had a feature the row
\* has not.
C18_Witness ==
    /\ committed = <<<<"c2", 1>>, <<"c1", 1>>>>
    /\ LET row == batches["c1"][1][1]
           old == task["c1"][1].reads[1]
       IN  /\ old # None
           /\ old.event_ts.t = row.timestamp.t
           /\ old.created_ts # None
           /\ row.created_ts = None
           /\ "extra" \in DOMAIN old.values
           /\ "extra" \notin DOMAIN row.features
           /\ HoldsRow(Get(store, "fv1", compute_datastore_entity_id(row.entity_key)), row)

\* Minibatch i of call c has met a backend error that is not a conflict.
Failed(c, i) == task[c][i].errors > 0

\* What holds of such a minibatch from then on.
C19_NotRetried(c, i) ==
    \* _write_minibatch has raised, on the attempt that met the error
    /\ task[c][i].pc = "raised"
    /\ task[c][i].errors = 1
    /\ task[c][i].attempts = task[c][i].conflicts + 1
    \* nothing of the minibatch is committed
    /\ \A n \in DOMAIN committed : committed[n] # <<c, i>>
    /\ \A j \in DOMAIN batches[c][i] :
           compute_datastore_entity_id(batches[c][i][j].entity_key)
               \notin DOMAIN store[calltable[c]]
    \* online_write_batch does not return: once every minibatch is through,
    \* the one thing pool.map can do is raise
    /\ callpc[c] \in {"running", "raised"}
    /\ (callpc[c] = "running" /\ \A n \in DOMAIN task[c] : Finished(task[c][n])) =>
           /\ ENABLED OnlineWriteBatchRaise(c)
           /\ ~ENABLED OnlineWriteBatchReturn(c)

\* C19: a backend error other than a write conflict is not retried.  The
\* minibatch is attempted no more, nothing of it is committed, and the error
\* leaves _write_minibatch and then online_write_batch.
C19_ErrorNotRetried ==
    \A c \in Calls : \A i \in DOMAIN task[c] : Failed(c, i) => C19_NotRetried(c, i)

\* The first attempt of a minibatch met an error and online_write_batch has
\* raised it, another minibatch of the call being committed.
C19_Witness ==
    /\ callpc["c1"] = "raised"
    /\ \E i, j \in DOMAIN task["c1"] :
           /\ Failed("c1", i)
           /\ task["c1"][i].attempts = 1
           /\ task["c1"][j].pc = "done"

\* The stages of an invocation, in order; the last is the second half of
\* Record, the registry's apply_feature_view.
Stages == <<"resolve", "pull", "transform", "convert", "commit", "record", "apply">>

\* The invocation is past the stage.
Past(stage) == \E n \in DOMAIN mat.stages : mat.stages[n] = stage

\* What holds of an invocation in every state.
C20_Invocation ==
    \* the stages so far are the first stages, in order
    /\ Len(mat.stages) <= Len(Stages)
    /\ mat.stages = SubSeq(Stages, 1, Len(mat.stages))
    \* Pull: the range asked of the offline store is the aware start and end
    /\ Past("pull") =>
           /\ mat.pull_range = <<Datetime(mat.start_arg.t, "utc"),
                                 Datetime(mat.end_arg.t, "utc")>>
           /\ (mat.field_mapping # None /\ ~Past("transform")) =>
                  \A n \in DOMAIN mat.table :
                      DOMAIN FieldMapping \subseteq DOMAIN mat.table[n]
    \* Transform: a declared mapping has renamed the columns
    /\ Past("transform") =>
           \A n \in DOMAIN mat.table :
               /\ {"driver_id", "ts"} \subseteq DOMAIN mat.table[n]
               /\ DOMAIN FieldMapping \cap DOMAIN mat.table[n] = {}
    \* Convert: one row per record of the mapped table
    /\ IF Past("convert")
       THEN /\ Len(mat.rows_to_write) = Len(mat.table)
            /\ \A n \in DOMAIN mat.table :
                   /\ mat.rows_to_write[n].entity_key
                          = EntityKey(<<"driver_id">>, <<mat.table[n]["driver_id"]>>)
                   /\ mat.rows_to_write[n].timestamp = mat.table[n]["ts"]
       ELSE mat.rows_to_write = <<>>
    \* Commit: online_write_batch is given the converted rows
    /\ IF Past("commit")
       THEN calldata[mat.call] = mat.rows_to_write
       ELSE mat.call = "none"
    \* Record: the call has returned
    /\ Past("record") => callpc[mat.call] = "returned"

\* No invocation yet, or one that is in order.
C20_Order == matpc # "idle" => C20_Invocation

\* What holds of every step.
C20_Steps ==
    \* a row is written during Commit only
    /\ store' # store => mat.stages = SubSeq(Stages, 1, 5)
    \* the interval is recorded after online_write_batch has returned
    /\ intervals' # intervals =>
           /\ mat.stages = SubSeq(Stages, 1, 5)
           /\ callpc[mat.call] = "returned"

\* C20: the stages of a materialize_single_feature_view invocation occur in
\* the order Resolve, Pull, Transform, Convert, Commit, Record.  The pull uses
\* the timezone-aware start and end, a declared field mapping is applied
\* before the rows are converted, no row is written before the conversion is
\* complete, and the interval is recorded only after online_write_batch has
\* returned.
C20_StagesInOrder == []C20_Order /\ [][C20_Steps]_vars

\* An invocation with naive dates and a field mapping has gone through every
\* stage and its row is in the store.
C20_Witness ==
    /\ matpc = "done"
    /\ mat.stages = Stages
    /\ mat.field_mapping # None
    /\ mat.start_arg.tz = "naive"
    /\ mat.end_arg.tz = "naive"
    /\ Len(mat.rows_to_write) = 1
    /\ HoldsRow(Get(store, MatView,
                    compute_datastore_entity_id(mat.rows_to_write[1].entity_key)),
                mat.rows_to_write[1])

(***************************************************************************)
(* Properties of the pool.                                                 *)
(***************************************************************************)
\* At most `processes` minibatch transactions are in progress.
C21_Bounded == \A c \in Calls : Cardinality(InProgress(c)) <= processes

\* A step that begins minibatch i finds a thread free: fewer than `processes`
\* minibatches are in progress, none of them in the chunk of i, and the
\* minibatches of that chunk before i are complete.
C21_Begins(c, i) ==
    (task[c][i].pc = "queued" /\ task'[c][i].pc # "queued") =>
        /\ Cardinality(InProgress(c)) < processes
        /\ \A j \in DOMAIN task[c] :
               (j # i /\ Chunk(c, j) = Chunk(c, i)) =>
                   /\ j \notin InProgress(c)
                   /\ j < i => Finished(task[c][j])

\* C21: during an online_write_batch call at most `processes` (10) minibatch
\* transactions are in progress at any time, and a thread takes its next
\* minibatch only when the one it had is complete: committed, out of
\* attempts, or failed.
C21_PoolSize ==
    /\ []C21_Bounded
    /\ [][\A c \in Calls : \A i \in DOMAIN task[c] :
              i \in DOMAIN task'[c] => C21_Begins(c, i)]_vars

\* Ten minibatches are in progress, the last of the call among them: its
\* thread took it after the first minibatch had failed.
C21_Witness ==
    /\ Len(task["c1"]) = processes + 1
    /\ Cardinality(InProgress("c1")) = processes
    /\ task["c1"][processes + 1].pc = "txn"
    /\ task["c1"][1].pc = "raised"

(***************************************************************************)
(* Properties of a call whose data holds an entity key more than once.     *)
(***************************************************************************)
\* C22: when the data of one online_write_batch call holds several rows for
\* an entity key, the record stored for the key once the call has returned is
\* not staler than any of them: it is the row of the greatest event timestamp
\* among them, unless the store held a fresher record before.
C22_DuplicatesKeepFreshest ==
    \A c \in Calls :
        callpc[c] = "returned" =>
            \A n, m \in DOMAIN calldata[c] :
                (n # m /\ calldata[c][n].entity_key = calldata[c][m].entity_key) =>
                    /\ StoredFor(c, calldata[c][n]) # None
                    /\ StoredFor(c, calldata[c][n]).event_ts.t >= calldata[c][n].timestamp.t

(***************************************************************************)
(* Properties of the total the progress callback is given.                 *)
(***************************************************************************)
\* C23: when an online_write_batch call with a progress callback has
\* returned, the counts the callback was given add up to the number of rows
\* of the data, whatever the number of attempts that ended in a conflict.
C23_ProgressTotal ==
    \A c \in Calls :
        (callpc[c] = "returned" /\ callprogress[c]) => reported[c] = Len(calldata[c])

====
